---- MODULE Spec2Model ----
(***************************************************************************)
(* Token verification and authorization engine of app/api/security.py:     *)
(* bearer-token extraction, JWT parsing, HMAC / RSA signature checks,      *)
(* claims validation, role mapping, JWKS key resolution with its two       *)
(* process-wide caches, and the require_roles gate.                        *)
(*                                                                         *)
(* Conventions of the model                                                *)
(*  - Python None is the string NONE.                                      *)
(*  - A JSON value is a tagged record (JNull, JStr, JInt, ...).            *)
(*  - A Python str that the code takes apart character by character (a     *)
(*    base64url segment, a comma separated role string) is a sequence;     *)
(*    a str that is only compared is a TLA+ string.                        *)
(*  - Bytes are sequences of integers 0..255.                              *)
(***************************************************************************)
EXTENDS Integers, Sequences, FiniteSets, TLC

VARIABLES settings, wall, mono, jwks_cache, jwk_key_cache, remote, req, hist, call

vars == <<settings, wall, mono, jwks_cache, jwk_key_cache, remote, req, hist, call>>

NONE == "<None>"

\* a local name for a value: Body is applied to the value
With(value, Body(_)) == Body(value)

(***************************************************************************)
(* JSON values as json.loads produces them                                 *)
(***************************************************************************)
JNull == [t |-> "null"]
JStr(s) == [t |-> "str", s |-> s]
\* a JSON string the code splits and trims, given as its sequence of atoms:
\* words, "," and " "
JText(s) == [t |-> "text", atoms |-> s]
\* a JSON string given by its character codes (the n and e of a JWK)
JChars(c) == [t |-> "chars", codes |-> c]
JInt(i) == [t |-> "int", i |-> i]
JBool(b) == [t |-> "bool", b |-> b]
\* a finite float, given in halves: JFloat(5) is 2.5
JFloat(h) == [t |-> "float", halves |-> h]
\* json.loads("Infinity"), json.loads("1e400")
JInf == [t |-> "inf"]
\* json.loads("NaN")
JNaN == [t |-> "nan"]
JList(s) == [t |-> "list", items |-> s]
JObj(f) == [t |-> "obj", fields |-> f]

EmptyObj == JObj(<<>>)

\* dict.get(key) on a JSON object: the value, or None (JNull) when absent
Get(obj, key) == IF key \in DOMAIN obj.fields THEN obj.fields[key] ELSE JNull

\* isinstance(x, Mapping)
IsMapping(x) == x.t = "obj"

\* isinstance(x, str)
IsStr(x) == x.t \in {"str", "text", "chars"}

IsNone(x) == x.t = "null"

\* x == s for a string s
IsStrEq(x, s) == x.t = "str" /\ x.s = s

\* Python truthiness of a JSON value
Truthy(x) ==
    CASE x.t = "null" -> FALSE
      [] x.t = "str" -> x.s # ""
      [] x.t = "text" -> Len(x.atoms) > 0
      [] x.t = "chars" -> Len(x.codes) > 0
      [] x.t = "int" -> x.i # 0
      [] x.t = "bool" -> x.b
      [] x.t = "float" -> x.halves # 0
      [] x.t = "list" -> Len(x.items) > 0
      [] x.t = "obj" -> DOMAIN x.fields # {}
      [] OTHER -> TRUE

\* str(x) as used for User.id
PyStr(x) ==
    CASE x.t = "str" -> x.s
      [] x.t = "int" -> ToString(x.i)
      [] x.t = "bool" -> IF x.b THEN "True" ELSE "False"
      [] OTHER -> "<repr>"

(***************************************************************************)
(* Segment codec: base64url over character codes                           *)
(***************************************************************************)
PadChar == 61
DotChar == 46

\* binascii's table_a2b_base64 after the urlsafe translation of "-" and "_":
\* the 6-bit value of a character, 64 for a character outside the alphabet
B64Val(c) ==
    CASE c >= 65 /\ c <= 90 -> c - 65
      [] c >= 97 /\ c <= 122 -> c - 97 + 26
      [] c >= 48 /\ c <= 57 -> c - 48 + 52
      [] c = 43 \/ c = 45 -> 62
      [] c = 47 \/ c = 95 -> 63
      [] OTHER -> 64

\* the character base64.urlsafe_b64encode writes for a 6-bit value
B64Char(v) ==
    CASE v <= 25 -> 65 + v
      [] v <= 51 -> 97 + (v - 26)
      [] v <= 61 -> 48 + (v - 52)
      [] v = 62 -> 45
      [] OTHER -> 95

DecodeError(e) == [ok |-> FALSE, exc |-> e, bytes |-> <<>>]
Decoded(b) == [ok |-> TRUE, exc |-> NONE, bytes |-> b]

\* binascii.a2b_base64 in its default (non strict) mode: characters outside
\* the alphabet are skipped, a pad sequence that completes a quad ends the
\* input, and leftover characters are an error
RECURSIVE A2bBase64(_, _, _, _, _, _)
A2bBase64(chars, i, quad_pos, leftchar, pads, out) ==
    IF i > Len(chars)
    THEN IF quad_pos # 0 THEN DecodeError("binascii.Error") ELSE Decoded(out)
    ELSE IF chars[i] = PadChar
    THEN IF quad_pos >= 2 /\ quad_pos + pads + 1 >= 4
         THEN Decoded(out)
         ELSE A2bBase64(chars, i + 1, quad_pos, leftchar,
                        IF quad_pos >= 2 THEN pads + 1 ELSE pads, out)
    ELSE With(B64Val(chars[i]), LAMBDA v :
           IF v >= 64
           THEN A2bBase64(chars, i + 1, quad_pos, leftchar, pads, out)
           ELSE CASE quad_pos = 0 ->
                       A2bBase64(chars, i + 1, 1, v, 0, out)
                  [] quad_pos = 1 ->
                       A2bBase64(chars, i + 1, 2, v % 16, 0,
                                 Append(out, leftchar * 4 + (v \div 16)))
                  [] quad_pos = 2 ->
                       A2bBase64(chars, i + 1, 3, v % 4, 0,
                                 Append(out, leftchar * 16 + (v \div 4)))
                  [] OTHER ->
                       A2bBase64(chars, i + 1, 0, 0, 0,
                                 Append(out, leftchar * 64 + v)))

\* "=" * (-len(segment) % 4)
Padding(n) == [k \in 1..((4 - (n % 4)) % 4) |-> PadChar]

\* _b64url_decode: a non-ASCII character makes base64 raise ValueError,
\* anything the decoder rejects raises binascii.Error (a ValueError too)
_b64url_decode(segment) ==
    IF \E k \in 1..Len(segment) : segment[k] >= 128
    THEN DecodeError("ValueError")
    ELSE A2bBase64(segment \o Padding(Len(segment)), 1, 0, 0, 0, <<>>)

\* the 6-bit groups of the bytes, the last one filled up with zero bits
RECURSIVE Sextets(_)
Sextets(data) ==
    CASE Len(data) = 0 -> <<>>
      [] Len(data) = 1 -> <<data[1] \div 4, (data[1] % 4) * 16>>
      [] Len(data) = 2 ->
           <<data[1] \div 4, (data[1] % 4) * 16 + (data[2] \div 16),
             (data[2] % 16) * 4>>
      [] OTHER ->
           <<data[1] \div 4, (data[1] % 4) * 16 + (data[2] \div 16),
             (data[2] % 16) * 4 + (data[3] \div 64), data[3] % 64>>
              \o Sextets(SubSeq(data, 4, Len(data)))

\* base64.urlsafe_b64encode(data).rstrip(b"="), as the token issuer of the
\* test-suite does
_b64url_encode(data) ==
    With(Sextets(data), LAMBDA groups : [k \in DOMAIN groups |-> B64Char(groups[k])])

\* one bit of one character of a string flipped
RECURSIVE Pow2(_)
Pow2(n) == IF n = 0 THEN 1 ELSE 2 * Pow2(n - 1)

FlipBit(chars, pos, bit) ==
    With(Pow2(bit), LAMBDA p :
      [chars EXCEPT ![pos] = IF (@ \div p) % 2 = 1 THEN @ - p ELSE @ + p])

\* str.split(".") of a string given by its characters
RECURSIVE SplitDots(_, _)
SplitDots(chars, cur) ==
    IF chars = <<>> THEN <<cur>>
    ELSE IF Head(chars) = DotChar
         THEN <<cur>> \o SplitDots(Tail(chars), <<>>)
         ELSE SplitDots(Tail(chars), Append(cur, Head(chars)))

(***************************************************************************)
(* Outcomes of a call: a User, an HTTPException, or an exception the code  *)
(* does not handle (the framework answers 500)                             *)
(***************************************************************************)
User(id, roles) ==
    [kind |-> "user", status |-> 200, detail |-> NONE, www |-> FALSE,
     id |-> id, roles |-> roles]

HTTPException(status, detail, www) ==
    [kind |-> "http", status |-> status, detail |-> detail, www |-> www,
     id |-> NONE, roles |-> {}]

\* status.HTTP_401_UNAUTHORIZED with headers=WWW_AUTH_HEADER
Unauthorized(detail) == HTTPException(401, detail, TRUE)

Unhandled(exc) ==
    [kind |-> "exception", status |-> 500, detail |-> exc, www |-> FALSE,
     id |-> NONE, roles |-> {}]

\* the result of a helper: a value, or the outcome that ends the request
Ok(v) == [ok |-> TRUE, val |-> v, err |-> Unhandled(NONE)]
Fail(o) == [ok |-> FALSE, val |-> JNull, err |-> o]

Range(f) == {f[x] : x \in DOMAIN f}

\* the elements of a finite set in some fixed order
RECURSIVE SetToSeq(_)
SetToSeq(S) ==
    IF S = {} THEN <<>>
    ELSE LET x == CHOOSE y \in S : TRUE IN <<x>> \o SetToSeq(S \ {x})

(***************************************************************************)
(* Authorization header and token text                                     *)
(*                                                                         *)
(* A header value is NONE or a sequence of atoms: a space, a word, or a    *)
(* token.  A token is the text  head[1] "." ... "." tail  where the head   *)
(* segments are JSON segments and the tail is given by its characters.     *)
(***************************************************************************)
Seg(json) == [enc |-> "ok", json |-> json]
\* a segment whose decoding fails: "bad_base64", "bad_utf8" or "bad_json"
BadSeg(cls) == [enc |-> cls, json |-> JNull]

Token(head, tail) == [head |-> head, tail |-> tail]
NoToken == Token(<<>>, <<>>)

SP == [a |-> "sp", w |-> " ", tok |-> NoToken]
TAB == [a |-> "tab", w |-> "\t", tok |-> NoToken]
Word(w) == [a |-> "word", w |-> w, tok |-> NoToken]
Tok(t) == [a |-> "tok", w |-> "", tok |-> t]

\* str.lower() on the words the model uses
Lower(w) ==
    CASE w = "Bearer" -> "bearer"
      [] w = "BEARER" -> "bearer"
      [] w = "Basic" -> "basic"
      [] OTHER -> w

RECURSIVE FirstSpace(_, _)
FirstSpace(atoms, i) ==
    IF i > Len(atoms) THEN 0
    ELSE IF atoms[i].a = "sp" THEN i ELSE FirstSpace(atoms, i + 1)

\* str.strip() on a sequence of atoms: spaces and tabs are whitespace
RECURSIVE LStrip(_)
LStrip(atoms) ==
    IF atoms # <<>> /\ Head(atoms).a \in {"sp", "tab"} THEN LStrip(Tail(atoms)) ELSE atoms

RECURSIVE RStrip(_)
RStrip(atoms) ==
    IF atoms # <<>> /\ atoms[Len(atoms)].a \in {"sp", "tab"}
    THEN RStrip(SubSeq(atoms, 1, Len(atoms) - 1)) ELSE atoms

Strip(atoms) == RStrip(LStrip(atoms))

\* the text of the stripped token: a token atom is that token, anything
\* else is a text without "."
TokenText(atoms) ==
    IF Len(atoms) = 1 /\ atoms[1].a = "tok" THEN atoms[1].tok
    ELSE Token(<<>>, <<119>>)

\* the Authorization header: absent (None) or a str of atoms
NoHeader == [present |-> FALSE, atoms |-> <<>>]
HeaderValue(atoms) == [present |-> TRUE, atoms |-> atoms]

\* an extraction that compares the scheme as it is written
_extract_token_case_sensitive(authorization) ==
    IF ~authorization.present \/ authorization.atoms = <<>>
    THEN Fail(Unauthorized("missing_token"))
    ELSE With(FirstSpace(authorization.atoms, 1), LAMBDA sp :
           LET scheme == SubSeq(authorization.atoms, 1, sp - 1) IN
           IF sp = 0
           THEN Fail(Unauthorized("invalid_authorization_header"))
           ELSE With(Strip(SubSeq(authorization.atoms, sp + 1,
                                  Len(authorization.atoms))), LAMBDA token :
                  IF ~(Len(scheme) = 1 /\ scheme[1].a = "word"
                         /\ scheme[1].w = "bearer")
                     \/ token = <<>>
                  THEN Fail(Unauthorized("invalid_token"))
                  ELSE Ok(token)))

\* AuthBackend._extract_token, the returned str given by its atoms
_extract_token_str(authorization) ==
    IF ~authorization.present \/ authorization.atoms = <<>>
    THEN Fail(Unauthorized("missing_token"))
    ELSE With(FirstSpace(authorization.atoms, 1), LAMBDA sp :
           LET scheme == SubSeq(authorization.atoms, 1, sp - 1) IN
           IF sp = 0
           THEN Fail(Unauthorized("invalid_authorization_header"))
           ELSE With(Strip(SubSeq(authorization.atoms, sp + 1,
                                  Len(authorization.atoms))), LAMBDA token :
                  IF ~(Len(scheme) = 1 /\ scheme[1].a = "word"
                         /\ Lower(scheme[1].w) = "bearer")
                     \/ token = <<>>
                  THEN Fail(Unauthorized("invalid_token"))
                  ELSE Ok(token)))

\* AuthBackend._extract_token, the returned str read as a token
_extract_token(authorization) ==
    With(_extract_token_str(authorization), LAMBDA text :
      IF ~text.ok THEN text ELSE Ok(TokenText(text.val)))

\* token.split(".")
Parts(token) == token.head \o SplitDots(token.tail, <<>>)

\* AuthBackend._decode_segment
_decode_segment(segment) ==
    IF segment.enc # "ok" THEN Fail(Unauthorized("invalid_token"))
    ELSE Ok(segment.json)

\* AuthBackend._parse_header
_parse_header(token) ==
    With(Parts(token), LAMBDA parts :
      IF Len(parts) # 3 THEN Fail(Unauthorized("invalid_token"))
      ELSE _decode_segment(parts[1]))

\* AuthBackend._parse_token: the signature segment is decoded outside any
\* try block, so a decoding error is not turned into an HTTPException
_parse_token(token) ==
    With(Parts(token), LAMBDA parts :
      IF Len(parts) # 3 THEN Fail(Unauthorized("invalid_token"))
      ELSE IF parts[1].enc # "ok" THEN _decode_segment(parts[1])
      ELSE IF parts[2].enc # "ok" THEN _decode_segment(parts[2])
      ELSE With(_b64url_decode(parts[3]), LAMBDA signature :
             IF ~signature.ok THEN Fail(Unhandled(signature.exc))
             ELSE Ok([header |-> parts[1].json, payload |-> parts[2].json,
                      signature |-> signature.bytes,
                      signing_input |-> <<parts[1], parts[2]>>])))

(***************************************************************************)
(* The bounded universe of token segments                                  *)
(***************************************************************************)
\* atoms of role strings
COMMA == ","
SPACE == " "

HS256Header == [alg |-> JStr("HS256"), typ |-> JStr("JWT")]
RS256Header(kid) == [alg |-> JStr("RS256"), kid |-> JStr(kid)]

HeaderJsons ==
    { JObj(HS256Header),
      JObj([alg |-> JStr("HS384"), typ |-> JStr("JWT")]),
      JObj([alg |-> JStr("HS512"), typ |-> JStr("JWT")]),
      JObj([HS256Header EXCEPT !.typ = JStr("at+jwt")]),
      JObj([alg |-> JStr("HS256"), kid |-> JStr("k1")]),
      JObj(RS256Header("k1")),
      JObj(RS256Header("k2")),
      JObj(RS256Header("k3")),
      JObj([alg |-> JStr("RS256")]),
      JObj([alg |-> JStr("RS256"), kid |-> JStr("")]),
      JObj([alg |-> JStr("RS384"), kid |-> JStr("k1")]),
      JObj([alg |-> JStr("ES256"), kid |-> JStr("k1")]),
      JObj([alg |-> JStr("none"), kid |-> JStr("k1")]),
      JObj([alg |-> JStr(""), kid |-> JStr("k1")]),
      JObj([typ |-> JStr("JWT")]),
      JObj([kid |-> JStr("k1")]),
      JObj([alg |-> JStr("RS256"), kid |-> JInt(1)]),
      JObj([alg |-> JStr("RS256"), kid |-> JList(<<JStr("k1")>>)]),
      JList(<<JStr("HS256")>>) }

\* wall-clock seconds used by exp claims; FarFuture is never reached
FarFuture == 100

BasePayload ==
    [sub |-> JStr("user-1"), exp |-> JInt(FarFuture),
     roles |-> JText(<<"Admin", COMMA, "Floor">>)]

WithExp(e) == [BasePayload EXCEPT !.exp = e]

PayloadJsons ==
    { JObj(BasePayload),
      JObj(WithExp(JInt(1))),
      JObj(WithExp(JInt(2))),
      JObj(WithExp(JFloat(3))),
      JObj(WithExp(JStr("2"))),
      JObj(WithExp(JStr("soon"))),
      JObj(WithExp(JInf)),
      JObj(WithExp(JNull)),
      JObj([sub |-> JStr("user-1")]),
      JObj([sub |-> JStr("user-1"), exp |-> JInt(FarFuture), aud |-> JStr("a1")]),
      JObj([sub |-> JStr("user-1"), exp |-> JInt(FarFuture), aud |-> JStr("a2")]),
      JObj([sub |-> JStr("user-1"), exp |-> JInt(FarFuture),
            aud |-> JList(<<JStr("a2"), JStr("a1")>>), iss |-> JStr("i1")]),
      JObj([sub |-> JStr("user-1"), exp |-> JInt(FarFuture), iss |-> JStr("i2")]),
      JObj([sub |-> JInt(7), exp |-> JInt(FarFuture)]),
      JObj([exp |-> JInt(FarFuture), roles |-> JText(<<"Admin">>)]),
      JObj([sub |-> JStr("user-2"), exp |-> JInt(FarFuture),
            roles |-> JList(<<JText(<<"clerk">>), JText(<<SPACE, "Viewer">>), JInt(3)>>)]),
      JObj([sub |-> JStr("user-3"), exp |-> JInt(FarFuture), roles |-> JInt(5),
            app_metadata |-> JObj([roles |-> JList(<<JText(<<"clerk">>)>>)]),
            user |-> JObj([id |-> JStr("u-9")])]),
      JStr("payload") }

\* payloads with several defects at once: each of exp, aud, iss and the
\* user id right or wrong
OrderPayloads ==
    { Seg(JObj([k \in {"exp", "aud", "iss"} \cup sub |->
                  CASE k = "exp" -> JInt(exp)
                    [] k = "aud" -> JStr(aud)
                    [] k = "iss" -> JStr(iss)
                    [] OTHER -> JStr("user-1")])) :
        exp \in {1, FarFuture}, aud \in {"a1", "a2"}, iss \in {"i1", "i2"},
        sub \in {{"sub"}, {}} }

\* every segment text of the universe, in a fixed order: the position of a
\* segment stands for its text
SegTable ==
    LET H == { Seg(j) : j \in HeaderJsons }
        P == { Seg(j) : j \in PayloadJsons } \cup OrderPayloads
        B == { BadSeg("bad_base64"), BadSeg("bad_utf8"), BadSeg("bad_json") }
    IN  SetToSeq(H \cup P \cup B)

(***************************************************************************)
(* Hash functions.  hashlib and hmac are modelled as ideal functions:      *)
(* digests are scaled to 2, 3 and 4 bytes and distinct (key, message)      *)
(* pairs of the universe have distinct digests.                            *)
(***************************************************************************)
_HMAC_ALGORITHMS == [HS256 |-> "sha256", HS384 |-> "sha384", HS512 |-> "sha512"]
_RSA_ALGORITHMS == [RS256 |-> "sha256", RS384 |-> "sha384", RS512 |-> "sha512"]

\* the DigestInfo prefixes, scaled to the one byte in which they differ
_RSA_DIGEST_INFOS == [RS256 |-> <<49>>, RS384 |-> <<65>>, RS512 |-> <<81>>]

digest_size(hash) ==
    CASE hash = "sha256" -> 2 [] hash = "sha384" -> 3 [] OTHER -> 4

SecretTable == <<"s1", "s2">>

\* 0 for the unkeyed hash, otherwise the position of the secret
KeyIndex(secret) ==
    IF secret = NONE THEN 0
    ELSE IF \E i \in DOMAIN SecretTable : SecretTable[i] = secret
         THEN CHOOSE i \in DOMAIN SecretTable : SecretTable[i] = secret
         ELSE Len(SecretTable) + 1

\* the number that stands for the bytes of key and message
TextIndex(secret, signing_input) ==
    With(SegTable, LAMBDA table :
      With([seg \in Range(signing_input) |->
              (CHOOSE i \in DOMAIN table : table[i] = seg) - 1], LAMBDA index :
        (KeyIndex(secret) * Len(table) + index[signing_input[1]]) * Len(table)
            + index[signing_input[2]]))

\* two bijections of 0..65535
Mix1(x, salt) == (x * 40503 + 12345 + salt) % 65536
Mix2(x, salt) == (x * 25173 + 13849 + salt) % 65536

HashSalt(hash) ==
    CASE hash = "sha256" -> 0 [] hash = "sha384" -> 21001 [] OTHER -> 42002

\* HMAC(secret, signing_input) and, with secret NONE, hash(signing_input)
Digest(hash, secret, signing_input) ==
    With(TextIndex(secret, signing_input), LAMBDA x :
      With(<<Mix1(x, HashSalt(hash)), Mix2(x, HashSalt(hash))>>, LAMBDA m :
        SubSeq(<<m[1] \div 256, m[1] % 256, m[2] \div 256, m[2] % 256>>,
               1, digest_size(hash))))

\* AuthBackend._verify_hmac
_verify_hmac(signing_input, signature, secret, algorithm) ==
    IF Digest(_HMAC_ALGORITHMS[algorithm], secret, signing_input) # signature
    THEN Fail(Unauthorized("invalid_token"))
    ELSE Ok(JNull)

(***************************************************************************)
(* Unsigned integers of up to 56 bits as <<high 28 bits, low 28 bits>>     *)
(***************************************************************************)
W == Pow2(28)

Zero == <<0, 0>>
One == <<0, 1>>
\* stands for every integer of 2^56 or more
TooBig == <<W, 0>>

Less(a, b) == a[1] < b[1] \/ (a[1] = b[1] /\ a[2] < b[2])

Add(a, b) ==
    LET lo == a[2] + b[2]
    IN  <<a[1] + b[1] + (lo \div W), lo % W>>

\* a - b for a >= b
Sub(a, b) ==
    IF a[2] >= b[2] THEN <<a[1] - b[1], a[2] - b[2]>>
    ELSE <<a[1] - b[1] - 1, a[2] + W - b[2]>>

AddMod(a, b, m) ==
    With(Add(a, b), LAMBDA x : IF Less(x, m) THEN x ELSE Sub(x, m))

Half(a) == <<a[1] \div 2, (a[1] % 2) * (W \div 2) + (a[2] \div 2)>>
IsOdd(a) == a[2] % 2 = 1

\* one bit of a multiplication: st = <<acc, pw, b>> keeps (acc + pw * b) % m,
\* with acc, pw < m
MulBit(st, m) ==
    <<IF IsOdd(st[3]) THEN AddMod(st[1], st[2], m) ELSE st[1],
      AddMod(st[2], st[2], m),
      Half(st[3])>>

\* four bits of b are taken per step
RECURSIVE MulModIter(_, _)
MulModIter(st, m) ==
    IF st[3] = Zero THEN st[1]
    ELSE MulModIter(MulBit(MulBit(MulBit(MulBit(st, m), m), m), m), m)

\* (a * b) % m for a < m
MulMod(a, b, m) == MulModIter(<<Zero, a, b>>, m)

\* one bit of an exponentiation: st = <<acc, pw, e>> keeps (acc * pw^e) % m,
\* with acc, pw < m
PowBit(st, m) ==
    <<IF IsOdd(st[3]) THEN MulMod(st[1], st[2], m) ELSE st[1],
      IF Less(One, st[3]) THEN MulMod(st[2], st[2], m) ELSE st[2],
      Half(st[3])>>

\* four bits of e are taken per step
RECURSIVE PowModIter(_, _)
PowModIter(st, m) ==
    IF st[3] = Zero THEN st[1]
    ELSE PowModIter(PowBit(PowBit(PowBit(PowBit(st, m), m), m), m), m)

\* a power that starts from the base, so that b^0 is b
PowModFromBase(b, e, m) == PowModIter(<<b, b, e>>, m)

\* pow(b, e, m) for b < m and m > 0
PowMod(b, e, m) == PowModIter(<<IF m = One THEN Zero ELSE One, b, e>>, m)

RECURSIVE StripZeros(_)
StripZeros(bytes) ==
    IF bytes # <<>> /\ Head(bytes) = 0 THEN StripZeros(Tail(bytes)) ELSE bytes

\* bytes.rjust(width, b"\x00")
RJust(bytes, width) ==
    IF Len(bytes) >= width THEN bytes
    ELSE [k \in 1..(width - Len(bytes)) |-> 0] \o bytes

\* int.from_bytes(bytes, "big")
FromBytes(bytes) ==
    With(StripZeros(bytes), LAMBDA s :
      IF Len(s) > 7 THEN TooBig
      ELSE With(RJust(s, 7), LAMBDA b :
             <<((b[1] * 256 + b[2]) * 256 + b[3]) * 16 + (b[4] \div 16),
               (((b[4] % 16) * 256 + b[5]) * 256 + b[6]) * 256 + b[7]>>))

\* int.to_bytes(length, "big") for a value that fits
ToBytes(a, length) ==
    With(a[1] \div 16, LAMBDA t :
      RJust(SubSeq(<< t \div 65536, (t \div 256) % 256, t % 256,
                      (a[1] % 16) * 16 + (a[2] \div 16777216),
                      (a[2] \div 65536) % 256, (a[2] \div 256) % 256, a[2] % 256 >>,
                   8 - (IF length > 7 THEN 7 ELSE length), 7), length))

RECURSIVE IntBitLength(_)
IntBitLength(n) == IF n = 0 THEN 0 ELSE 1 + IntBitLength(n \div 2)

\* int.bit_length()
BitLength(a) == IF a[1] > 0 THEN 28 + IntBitLength(a[1]) ELSE IntBitLength(a[2])

(***************************************************************************)
(* RSA / PKCS#1 v1.5                                                        *)
(***************************************************************************)
\* the shortest encoded message the verifier looks at: 00 01, the minimal
\* padding and the 00 terminator (11 bytes with the 8 padding bytes of
\* PKCS#1, scaled to one padding byte)
MinEmLen == 4

\* bytes.index(b"\x00", start): the position (from 0) or -1
RECURSIVE IndexOfZero(_, _)
IndexOfZero(bytes, start) ==
    IF start >= Len(bytes) THEN -1
    ELSE IF bytes[start + 1] = 0 THEN start ELSE IndexOfZero(bytes, start + 1)

\* the checks of _verify_rsa on the encoded message em
CheckEncodedMessage(em, expected_info) ==
    With(IndexOfZero(em, 2), LAMBDA separator_index :
      LET padding == SubSeq(em, 3, separator_index)
          digest_info == SubSeq(em, separator_index + 2, Len(em))
          invalid == Fail(Unauthorized("invalid_token"))
      IN  IF Len(em) < MinEmLen \/ SubSeq(em, 1, 2) # <<0, 1>> THEN invalid
          ELSE IF separator_index < 0 THEN invalid
          ELSE IF \E k \in DOMAIN padding : padding[k] # 255 THEN invalid
          ELSE IF digest_info # expected_info THEN invalid
          ELSE Ok(JNull))

\* _verify_rsa from the decoded modulus and exponent on
VerifyWithNumbers(signing_input, signature, modulus, exponent, algorithm) ==
    With((BitLength(modulus) + 7) \div 8, LAMBDA key_size :
      With(FromBytes(IF Len(signature) # key_size THEN RJust(signature, key_size)
                     ELSE signature), LAMBDA signature_int :
        IF ~Less(signature_int, modulus) THEN Fail(Unauthorized("invalid_token"))
        ELSE CheckEncodedMessage(
               ToBytes(PowMod(signature_int, exponent, modulus), key_size),
               _RSA_DIGEST_INFOS[algorithm]
                  \o Digest(_RSA_ALGORITHMS[algorithm], NONE, signing_input))))

\* AuthBackend._verify_rsa
_verify_rsa(signing_input, signature, jwk_data, algorithm) ==
    LET modulus_b64 == Get(jwk_data, "n")
        exponent_b64 == Get(jwk_data, "e")
        invalid == Fail(Unauthorized("invalid_token"))
    IN  IF ~IsStrEq(Get(jwk_data, "kty"), "RSA") THEN invalid
        ELSE IF ~IsStr(modulus_b64) \/ ~IsStr(exponent_b64) THEN invalid
        ELSE With(<<_b64url_decode(modulus_b64.codes), _b64url_decode(exponent_b64.codes)>>,
                  LAMBDA raw :
               IF ~raw[1].ok THEN Fail(Unhandled(raw[1].exc))
               ELSE IF ~raw[2].ok THEN Fail(Unhandled(raw[2].exc))
               ELSE VerifyWithNumbers(signing_input, signature, FromBytes(raw[1].bytes),
                                      FromBytes(raw[2].bytes), algorithm))

\* the issuer's side: the PKCS#1 v1.5 signature of signing_input under the
\* private exponent d of modulus n (both given as byte strings)
RsaSign(signing_input, algorithm, n, d) ==
    With(FromBytes(n), LAMBDA modulus :
      With((BitLength(modulus) + 7) \div 8, LAMBDA key_size :
        With(_RSA_DIGEST_INFOS[algorithm]
                \o Digest(_RSA_ALGORITHMS[algorithm], NONE, signing_input), LAMBDA t :
          ToBytes(PowMod(FromBytes(<<0, 1>> \o [k \in 1..(key_size - Len(t) - 3) |-> 255]
                                      \o <<0>> \o t),
                         FromBytes(d), modulus), key_size))))

(***************************************************************************)
(* Claims validation                                                       *)
(*                                                                         *)
(* The wall clock is counted in half seconds, so that time.time() can fall *)
(* between two whole seconds; exp claims are in seconds.                   *)
(***************************************************************************)
\* int(s) for the strings of the universe: [ok, v], ValueError otherwise
IntOfStr(str) ==
    CASE str = "0" -> [ok |-> TRUE, v |-> 0]
      [] str = "1" -> [ok |-> TRUE, v |-> 1]
      [] str = "2" -> [ok |-> TRUE, v |-> 2]
      [] str = " 2 " -> [ok |-> TRUE, v |-> 2]
      [] str = "3" -> [ok |-> TRUE, v |-> 3]
      [] OTHER -> [ok |-> FALSE, v |-> 0]

\* AuthBackend._coerce_int: an int, None (JNull), or an exception of int()
\* that the float branch does not catch
_coerce_int(value) ==
    CASE value.t = "int" -> Ok(value)
      [] value.t = "bool" -> Ok(JInt(IF value.b THEN 1 ELSE 0))
      [] value.t = "float" ->
           Ok(JInt(IF value.halves >= 0 THEN value.halves \div 2 ELSE -((-value.halves) \div 2)))
      [] value.t = "inf" -> Fail(Unhandled("OverflowError"))
      [] value.t = "nan" -> Fail(Unhandled("ValueError"))
      [] value.t = "str" ->
           IF IntOfStr(value.s).ok THEN Ok(JInt(IntOfStr(value.s).v)) ELSE Ok(JNull)
      [] OTHER -> Ok(JNull)

\* an audience that is read from a str claim only
_normalise_audience_str_only(value) ==
    CASE value.t = "str" -> {value.s}
      [] OTHER -> {}

\* AuthBackend._normalise_audience
_normalise_audience(value) ==
    CASE value.t = "null" -> {}
      [] value.t = "str" -> {value.s}
      [] value.t = "list" ->
           {value.items[k].s : k \in {j \in DOMAIN value.items : value.items[j].t = "str"}}
      [] OTHER -> {}

\* a setting that is None or an empty string is falsy
IsSet(x) == x # NONE /\ x # ""

\* AuthBackend._validate_claims, with now == time.time() in half seconds
_validate_claims(cfg, payload, now) ==
    LET exp == Get(payload, "exp")
        audience == cfg.auth_audience
        issuer == cfg.auth_issuer
        invalid == Fail(Unauthorized("invalid_token"))
    IN  IF ~IsMapping(payload) THEN Fail(Unhandled("AttributeError"))
        ELSE With(IF IsNone(exp) THEN Ok(JNull) ELSE _coerce_int(exp), LAMBDA exp_value :
          IF IsNone(exp) /\ cfg.auth_require_exp THEN invalid
          ELSE IF ~exp_value.ok THEN exp_value
          ELSE IF ~IsNone(exp) /\ IsNone(exp_value.val) THEN invalid
          ELSE IF ~IsNone(exp) /\ 2 * exp_value.val.i <= now
               THEN Fail(Unauthorized("token_expired"))
          ELSE IF IsSet(audience)
                  /\ audience \notin _normalise_audience(Get(payload, "aud"))
               THEN invalid
          ELSE IF IsSet(issuer) /\ ~IsStrEq(Get(payload, "iss"), issuer) THEN invalid
          ELSE Ok(JNull))

(***************************************************************************)
(* Claim navigation and role mapping                                       *)
(***************************************************************************)
\* AuthBackend._extract_claim; a path is given as path.split("."), the
\* empty path as <<>>
RECURSIVE Walk(_, _)
Walk(current, parts) ==
    IF parts = <<>> THEN current
    ELSE IF Head(parts) = "" THEN JNull
    ELSE IF IsMapping(current) THEN Walk(Get(current, Head(parts)), Tail(parts))
    ELSE JNull

_extract_claim(payload, path) == IF path = <<>> THEN JNull ELSE Walk(payload, path)

\* the text of a string given by its atoms
RECURSIVE Join(_)
Join(atoms) == IF atoms = <<>> THEN "" ELSE Head(atoms) \o Join(Tail(atoms))

\* str.split(",") on atoms
RECURSIVE SplitCommas(_, _)
SplitCommas(atoms, cur) ==
    IF atoms = <<>> THEN <<cur>>
    ELSE IF Head(atoms) = COMMA
         THEN <<cur>> \o SplitCommas(Tail(atoms), <<>>)
         ELSE SplitCommas(Tail(atoms), Append(cur, Head(atoms)))

\* str.strip() on atoms
RECURSIVE LStripText(_)
LStripText(atoms) ==
    IF atoms # <<>> /\ Head(atoms) = SPACE THEN LStripText(Tail(atoms)) ELSE atoms

RECURSIVE RStripText(_)
RStripText(atoms) ==
    IF atoms # <<>> /\ atoms[Len(atoms)] = SPACE
    THEN RStripText(SubSeq(atoms, 1, Len(atoms) - 1)) ELSE atoms

StripText(atoms) == Join(RStripText(LStripText(atoms)))

\* the atoms of a Python str
Atoms(x) == IF x.t = "text" THEN x.atoms ELSE IF x.s = "" THEN <<>> ELSE <<x.s>>

\* whether raw is a Python str
IsText(x) == x.t \in {"str", "text"}

\* AuthBackend._normalise_roles
_normalise_roles(raw) ==
    With(CASE IsText(raw) ->
                With(Atoms(raw), LAMBDA atoms :
                  IF \E k \in DOMAIN atoms : atoms[k] = COMMA
                  THEN With(SplitCommas(atoms, <<>>), LAMBDA pieces :
                         {StripText(pieces[k]) : k \in DOMAIN pieces})
                  ELSE {StripText(atoms)})
           [] raw.t = "list" ->
                {StripText(Atoms(value)) : value \in {v \in Range(raw.items) : IsText(v)}}
           [] OTHER -> {},
         LAMBDA items : {item \in items : item # ""})

\* {str(item).strip() for item in values if isinstance(item, str) and
\* item.strip()}
Converted(values) ==
    {StripText(Atoms(item)) : item \in {v \in Range(values.items) : IsText(v)}} \ {""}

\* AuthBackend._normalise_role_mapping; the raw table maps a provider role
\* to a string or to a list
_normalise_role_mapping(mapping) ==
    With([r \in DOMAIN mapping |->
            IF mapping[r].t = "list" THEN Converted(mapping[r])
            ELSE {Join(Atoms(mapping[r]))}], LAMBDA sets :
      [r \in {k \in DOMAIN mapping : IsText(mapping[k]) \/ sets[k] # {}} |-> sets[r]])

\* a mapping that keeps one replacement per role
_map_roles_to_one(role_mapping, roles) ==
    { IF role \in DOMAIN role_mapping /\ role_mapping[role] # {}
      THEN CHOOSE r \in role_mapping[role] : TRUE ELSE role : role \in roles }

\* AuthBackend._map_roles over the normalised table
_map_roles(role_mapping, roles) ==
    UNION { IF role \in DOMAIN role_mapping /\ role_mapping[role] # {}
            THEN role_mapping[role] ELSE {role} : role \in roles }

\* a user built without the default roles
_user_without_defaults(cfg, payload) ==
    With(_extract_claim(payload, cfg.auth_user_id_claim), LAMBDA user_identifier :
      IF IsNone(user_identifier) THEN Unauthorized("missing_user_id")
      ELSE User(PyStr(user_identifier),
                _map_roles(_normalise_role_mapping(cfg.auth_role_mapping),
                           _normalise_roles(_extract_claim(payload, cfg.auth_roles_claim)))))

\* a user named after the type of its identifier
_user_named_by_type(cfg, payload) ==
    With(_extract_claim(payload, cfg.auth_user_id_claim), LAMBDA user_identifier :
      IF IsNone(user_identifier) THEN Unauthorized("missing_user_id")
      ELSE User(user_identifier.t, Range(cfg.auth_default_roles)))

\* a user whose roles are taken from the token as they are
_user_with_raw_roles(cfg, payload) ==
    With(_extract_claim(payload, cfg.auth_user_id_claim), LAMBDA user_identifier :
      IF IsNone(user_identifier) THEN Unauthorized("missing_user_id")
      ELSE User(PyStr(user_identifier),
                _normalise_roles(_extract_claim(payload, cfg.auth_roles_claim))
                   \cup Range(cfg.auth_default_roles)))

\* AuthBackend._user_from_payload
_user_from_payload(cfg, payload) ==
    With(_extract_claim(payload, cfg.auth_user_id_claim), LAMBDA user_identifier :
      IF IsNone(user_identifier) THEN Unauthorized("missing_user_id")
      ELSE User(PyStr(user_identifier),
                _map_roles(_normalise_role_mapping(cfg.auth_role_mapping),
                           _normalise_roles(_extract_claim(payload, cfg.auth_roles_claim)))
                   \cup Range(cfg.auth_default_roles)))

\* AuthBackend._mock_user
_mock_user(cfg) ==
    User("demo", Range(cfg.auth_mock_roles) \cup Range(cfg.auth_default_roles))

\* a gate that asks for every required role
require_every_role(required, user) ==
    IF ~(Range(required) \subseteq user.roles)
    THEN HTTPException(403, "insufficient_role", FALSE)
    ELSE user

\* the dependency built by require_roles(*required)
require_roles(required, user) ==
    IF Range(required) \cap user.roles = {}
    THEN HTTPException(403, "insufficient_role", FALSE)
    ELSE user

(***************************************************************************)
(* JWKS documents and keys                                                 *)
(***************************************************************************)
\* two RSA key pairs of 55 bits: modulus and private exponent as bytes
N1 == <<122, 94, 164, 46, 142, 123, 135>>
D1 == <<81, 148, 109, 101, 158, 181, 235>>
N2 == <<107, 6, 1, 41, 50, 193, 123>>
D2 == <<42, 207, 51, 161, 205, 61, 205>>

Jwk(kid, n, e) ==
    JObj([kid |-> JStr(kid), kty |-> JStr("RSA"), alg |-> JStr("RS256"),
          n |-> JChars(_b64url_encode(n)), e |-> JChars(_b64url_encode(e))])

K1 == Jwk("k1", N1, <<3>>)
K2 == Jwk("k2", N2, <<5>>)

JwksDoc(keys) == JObj([keys |-> JList(keys)])

\* cfg.auth_algorithms or ["RS256"]
AllowedAlgorithms(cfg) ==
    IF cfg.auth_algorithms = <<>> THEN {"RS256"} ELSE Range(cfg.auth_algorithms)

\* AuthBackend._jwk_to_key: the key, or None (JNull)
_jwk_to_key(cfg, jwk_data) ==
    LET algorithm_name == Get(jwk_data, "alg")
    IN  IF Truthy(algorithm_name)
           /\ ~(algorithm_name.t = "str" /\ algorithm_name.s \in AllowedAlgorithms(cfg))
        THEN JNull
        ELSE IF ~IsStrEq(Get(jwk_data, "kty"), "RSA") THEN JNull
        ELSE IF ~IsStr(Get(jwk_data, "n")) \/ ~IsStr(Get(jwk_data, "e")) THEN JNull
        ELSE jwk_data

\* jwks.get("keys", []) if isinstance(jwks, Mapping) else []
KeysOf(jwks) ==
    IF IsMapping(jwks) /\ "keys" \in DOMAIN jwks.fields THEN jwks.fields.keys ELSE JList(<<>>)

\* the entries a loop over the keys of a document writes, as a table from
\* kid to key: a later key of the list overwrites an earlier one
KeyTable(cfg, keys) ==
    With([j \in DOMAIN keys |->
            IF /\ IsMapping(keys[j])
               /\ Truthy(Get(keys[j], "kid"))
               /\ ~IsNone(_jwk_to_key(cfg, keys[j]))
            THEN PyStr(Get(keys[j], "kid")) ELSE NONE], LAMBDA kids :
      [kid \in Range(kids) \ {NONE} |->
          keys[CHOOSE j \in DOMAIN keys :
                  kids[j] = kid /\ \A i \in DOMAIN keys : kids[i] = kid => i <= j]])

\* AuthBackend._parse_static_jwks; the setting is the parsed document, or
\* JNull when it is not set
_parse_static_jwks(cfg) ==
    IF IsNone(cfg.auth_jwks_static) THEN <<>>
    ELSE KeyTable(cfg, KeysOf(cfg.auth_jwks_static).items)

(***************************************************************************)
(* Signature checking and the decoding of a token under a key              *)
(***************************************************************************)
\* the key argument of _decode_with_key: None, a str or a JWK mapping
NoKey == [kind |-> "none", s |-> NONE, jwk |-> JNull]
StrKey(secret) == [kind |-> "str", s |-> secret, jwk |-> JNull]
JwkKey(jwk) == [kind |-> "jwk", s |-> NONE, jwk |-> jwk]

\* what a run of _decode_with_key yields: its result and the verifier it
\* called, if any
Decode(res, ran) == [res |-> res, ran |-> ran]

\* the if / elif over the algorithm families without the test of the key
\* in the HMAC branch
VerifyWithAnyKey(parsed, key, algorithm) ==
    IF algorithm \in DOMAIN _HMAC_ALGORITHMS
    THEN Decode(_verify_hmac(parsed.signing_input, parsed.signature, key.s,
                             algorithm), "hmac")
    ELSE IF algorithm \in DOMAIN _RSA_ALGORITHMS
    THEN IF key.kind # "jwk"
         THEN Decode(Fail(Unauthorized("missing_signing_key")), "none")
         ELSE Decode(_verify_rsa(parsed.signing_input, parsed.signature, key.jwk,
                                 algorithm), "rsa")
    ELSE Decode(Fail(Unauthorized("disallowed_algorithm")), "none")

\* the if / elif over the algorithm families in _decode_with_key
Verify(parsed, key, algorithm) ==
    IF algorithm \in DOMAIN _HMAC_ALGORITHMS
    THEN IF key.kind # "str"
         THEN Decode(Fail(Unauthorized("missing_signing_key")), "none")
         ELSE Decode(_verify_hmac(parsed.signing_input, parsed.signature, key.s,
                                  algorithm), "hmac")
    ELSE IF algorithm \in DOMAIN _RSA_ALGORITHMS
    THEN IF key.kind # "jwk"
         THEN Decode(Fail(Unauthorized("missing_signing_key")), "none")
         ELSE Decode(_verify_rsa(parsed.signing_input, parsed.signature, key.jwk,
                                 algorithm), "rsa")
    ELSE Decode(Fail(Unauthorized("disallowed_algorithm")), "none")

\* the checks without the validation of the claims
CheckParsedSkippingClaims(cfg, parsed, key, now) ==
    With(Get(parsed.header, "alg"), LAMBDA algorithm :
      IF ~Truthy(algorithm)
      THEN Decode(Fail(Unauthorized("invalid_token")), "none")
      ELSE IF ~(algorithm.t = "str" /\ algorithm.s \in AllowedAlgorithms(cfg))
      THEN Decode(Fail(Unauthorized("disallowed_algorithm")), "none")
      ELSE With(Verify(parsed, key, algorithm.s), LAMBDA verified :
             IF ~verified.res.ok THEN verified
             ELSE Decode(Ok(parsed.payload), verified.ran)))

\* the checks without the allow-list
CheckParsedAnyAlgorithm(cfg, parsed, key, now) ==
    With(Get(parsed.header, "alg"), LAMBDA algorithm :
      IF ~Truthy(algorithm) \/ algorithm.t # "str"
      THEN Decode(Fail(Unauthorized("invalid_token")), "none")
      ELSE With(Verify(parsed, key, algorithm.s), LAMBDA verified :
             IF ~verified.res.ok THEN verified
             ELSE With(_validate_claims(cfg, parsed.payload, now), LAMBDA claims :
                    IF ~claims.ok THEN Decode(claims, verified.ran)
                    ELSE Decode(Ok(parsed.payload), verified.ran))))

\* the checks with the claims validated before the signature
CheckParsedClaimsFirst(cfg, parsed, key, now) ==
    With(Get(parsed.header, "alg"), LAMBDA algorithm :
      IF ~Truthy(algorithm)
      THEN Decode(Fail(Unauthorized("invalid_token")), "none")
      ELSE IF ~(algorithm.t = "str" /\ algorithm.s \in AllowedAlgorithms(cfg))
      THEN Decode(Fail(Unauthorized("disallowed_algorithm")), "none")
      ELSE With(_validate_claims(cfg, parsed.payload, now), LAMBDA claims :
             IF ~claims.ok THEN Decode(claims, "none")
             ELSE With(Verify(parsed, key, algorithm.s), LAMBDA verified :
                    IF ~verified.res.ok THEN verified
                    ELSE Decode(Ok(parsed.payload), verified.ran))))

\* the checks of _decode_with_key on the parsed token
CheckParsed(cfg, parsed, key, now) ==
    With(Get(parsed.header, "alg"), LAMBDA algorithm :
      IF ~Truthy(algorithm)
      THEN Decode(Fail(Unauthorized("invalid_token")), "none")
      ELSE IF ~(algorithm.t = "str" /\ algorithm.s \in AllowedAlgorithms(cfg))
      THEN Decode(Fail(Unauthorized("disallowed_algorithm")), "none")
      ELSE With(Verify(parsed, key, algorithm.s), LAMBDA verified :
             IF ~verified.res.ok THEN verified
             ELSE With(_validate_claims(cfg, parsed.payload, now), LAMBDA claims :
                    IF ~claims.ok THEN Decode(claims, verified.ran)
                    ELSE Decode(Ok(parsed.payload), verified.ran))))

\* AuthBackend._decode_with_key
_decode_with_key(cfg, token, key, now) ==
    IF key.kind = "none"
    THEN Decode(Fail(Unauthorized("missing_signing_key")), "none")
    ELSE With(_parse_token(token), LAMBDA parsed :
           IF ~parsed.ok THEN Decode(parsed, "none")
           ELSE IF ~IsMapping(parsed.val.header)
           THEN Decode(Fail(Unhandled("AttributeError")), "none")
           ELSE CheckParsed(cfg, parsed.val, key, now))

(***************************************************************************)
(* The bounded universe of settings                                        *)
(***************************************************************************)
URL == "https://issuer/jwks"

NoMapping == <<>>

DefaultSettings ==
    [auth_provider |-> "shared_secret",
     auth_shared_secret |-> "s1",
     auth_algorithms |-> <<"HS256">>,
     auth_audience |-> NONE,
     auth_issuer |-> NONE,
     auth_roles_claim |-> <<"roles">>,
     auth_user_id_claim |-> <<"sub">>,
     auth_role_mapping |-> NoMapping,
     auth_default_roles |-> <<>>,
     auth_mock_roles |-> <<"Admin", "Purchasing", "Floor", "AP", "Driver">>,
     auth_jwks_url |-> NONE,
     auth_jwks_cache_seconds |-> 300,
     auth_jwks_static |-> JNull,
     auth_require_exp |-> TRUE]

\* the providers that are tried with every allow-list: a shared secret and
\* a static JWKS document
ProviderSettings ==
    { DefaultSettings,
      [DefaultSettings EXCEPT !.auth_provider = "jwks", !.auth_shared_secret = NONE,
                              !.auth_jwks_static = JwksDoc(<<K1>>)] }

\* a static document next to a JWKS URL: two keys with the kid k2, the
\* first one the key the URL serves and the last one another key without an
\* alg member, and a key with the kid k1 that has no modulus
StaticDocument ==
    JwksDoc(<<K2,
              JObj([kid |-> JStr("k2"), kty |-> JStr("RSA"),
                    n |-> JChars(_b64url_encode(N1)), e |-> JChars(_b64url_encode(<<3>>))]),
              JObj([kid |-> JStr("k1"), kty |-> JStr("RSA")])>>)

\* a JWKS URL: with the RSA and with the HMAC allow-list, with documents
\* that are not kept, and next to a static document
UrlSettings ==
    LET url == [DefaultSettings EXCEPT !.auth_provider = "jwks",
                                       !.auth_shared_secret = NONE,
                                       !.auth_algorithms = <<"RS256">>,
                                       !.auth_jwks_url = URL,
                                       !.auth_jwks_cache_seconds = 1]
    IN  { url,
          [url EXCEPT !.auth_algorithms = <<"HS256">>],
          [url EXCEPT !.auth_jwks_cache_seconds = 0],
          [url EXCEPT !.auth_shared_secret = "s1",
                      !.auth_jwks_static = StaticDocument] }

AlgorithmSettings ==
    { <<"HS256">>, <<"RS256">>,
      <<"HS256", "HS384", "HS512", "RS256", "RS384">>,
      <<"ES256", "none", "HS256", "RS256">> }

\* audience, issuer and require_exp
ClaimSettings(c) ==
    { [c EXCEPT !.auth_audience = "a1"],
      [c EXCEPT !.auth_issuer = "i1"],
      [c EXCEPT !.auth_audience = "a1", !.auth_issuer = "i1", !.auth_require_exp = FALSE],
      [c EXCEPT !.auth_require_exp = FALSE] }

\* claim paths, role mapping and default roles
UserSettings(c) ==
    { [c EXCEPT !.auth_roles_claim = <<"app_metadata", "roles">>,
                !.auth_role_mapping = [clerk |-> JList(<<JText(<<"Purchasing">>)>>)],
                !.auth_default_roles = <<"Floor">>],
      [c EXCEPT !.auth_user_id_claim = <<"user", "id">>,
                !.auth_role_mapping =
                    [Admin |-> JList(<<JText(<<"A">>), JText(<<SPACE, "B">>)>>),
                     Floor |-> JText(<<"Floor2">>),
                     Viewer |-> JList(<<JText(<<SPACE>>)>>)],
                !.auth_default_roles = <<"Floor", "AP">>],
      [c EXCEPT !.auth_user_id_claim = <<>>, !.auth_default_roles = <<"Floor">>] }

WithAlgorithms(c, algs) ==
    [c EXCEPT !.auth_algorithms = algs]

\* Settings._validate_auth
_validate_auth(c) ==
    /\ c.auth_provider = "shared_secret" => IsSet(c.auth_shared_secret)
    /\ c.auth_provider = "jwks" => IsSet(c.auth_jwks_url) \/ ~IsNone(c.auth_jwks_static)
    /\ c.auth_algorithms # <<>>

\* every token-verifying provider with every allow-list, and the claim and
\* user settings varied for the mock, one HMAC and one RSA configuration
SettingsUniverse ==
    LET crossed == { WithAlgorithms(c, a) : c \in ProviderSettings, a \in AlgorithmSettings }
        hs == DefaultSettings
        rs == WithAlgorithms(
                [DefaultSettings EXCEPT !.auth_provider = "jwks",
                                        !.auth_shared_secret = NONE,
                                        !.auth_jwks_static = JwksDoc(<<K1>>)], <<"RS256">>)
        mock == [DefaultSettings EXCEPT !.auth_provider = "mock", !.auth_shared_secret = NONE]
        varied == UNION { ClaimSettings(c) \cup UserSettings(c) : c \in {hs, rs} }
                    \cup UserSettings(mock)
                    \cup {mock, [mock EXCEPT !.auth_mock_roles = <<"Viewer">>,
                                              !.auth_default_roles = <<"Floor">>]}
    IN  { c \in crossed \cup UrlSettings \cup varied : _validate_auth(c) }

(***************************************************************************)
(* The bounded universe of requests                                        *)
(***************************************************************************)
\* the algorithm an issuer signs with: the one its header names
AlgOf(h, family, default) ==
    IF h.enc = "ok" /\ IsMapping(h.json) /\ Get(h.json, "alg").t = "str"
       /\ Get(h.json, "alg").s \in DOMAIN family
    THEN Get(h.json, "alg").s ELSE default

\* what an issuer signs with: a shared secret or an RSA private key
HmacIssuer(secret) == [kind |-> "hmac", secret |-> secret, n |-> <<>>, d |-> <<>>]
RsaIssuer(n, d) == [kind |-> "rsa", secret |-> NONE, n |-> n, d |-> d]

\* the token an issuer builds from header and payload, after _issue_token
\* of the tests
_issue_token(h, p, issuer) ==
    Token(<<h, p>>,
          _b64url_encode(
            IF issuer.kind = "hmac"
            THEN Digest(_HMAC_ALGORITHMS[AlgOf(h, _HMAC_ALGORITHMS, "HS256")],
                        issuer.secret, <<h, p>>)
            ELSE RsaSign(<<h, p>>, AlgOf(h, _RSA_ALGORITHMS, "RS256"),
                         issuer.n, issuer.d)))

Bearer(token) == HeaderValue(<<Word("Bearer"), SP, Tok(token)>>)

HeaderSegs == { Seg(j) : j \in HeaderJsons } \cup { BadSeg("bad_base64"), BadSeg("bad_json") }
PayloadSegs == { Seg(j) : j \in PayloadJsons } \cup { BadSeg("bad_utf8"), BadSeg("bad_json") }

HmacHeaderSegs == { h \in HeaderSegs : IsMapping(h.json) /\ IsStr(Get(h.json, "alg"))
                                        /\ Get(h.json, "alg").s \in DOMAIN _HMAC_ALGORITHMS }
RsaHeaderSegs == { h \in HeaderSegs : IsMapping(h.json) /\ IsStr(Get(h.json, "alg"))
                                       /\ Get(h.json, "alg").s \in DOMAIN _RSA_ALGORITHMS }

BaseSeg == Seg(JObj(BasePayload))
RS256Seg(kid) == Seg(JObj(RS256Header(kid)))

\* every single-bit flip of the signature segment of a token
Flips(token) ==
    { Token(token.head, FlipBit(token.tail, pos, bit)) :
        pos \in DOMAIN token.tail, bit \in 0..7 }

\* <<header, payload, issuer>> of the tokens that are signed as their
\* header says
Issued ==
    { <<h, BaseSeg, HmacIssuer(secret)>> : h \in HeaderSegs, secret \in {"s1", "s2"} }
      \cup { <<Seg(JObj(HS256Header)), p, HmacIssuer("s1")>> : p \in PayloadSegs }
      \cup { <<h, BaseSeg, RsaIssuer(N1, D1)>> : h \in RsaHeaderSegs }
      \cup { <<RS256Seg("k1"), Seg(JObj(WithExp(JInt(1)))), RsaIssuer(N1, D1)>>,
             <<RS256Seg("k1"), Seg(JObj([sub |-> JStr("user-1")])), RsaIssuer(N1, D1)>>,
             <<RS256Seg("k1"), BaseSeg, RsaIssuer(N2, D2)>> }

\* the tokens built around the token of the tests (base) and an RSA token
\* (rsa): an HMAC header over an RSA signature, flipped signature bits and
\* malformed texts
Forged(base, rsa) ==
    { Token(<<h, BaseSeg>>, rsa.tail) : h \in HmacHeaderSegs }
      \cup Flips(base)
      \cup { Token(<<>>, <<119>>), Token(<<>>, <<>>),
             Token(<<base.head[1]>>, base.tail),
             Token(base.head, <<>>),
             Token(base.head, base.tail \o <<PadChar>>),
             Token(base.head, <<65>>) }

\* the token of the tests and the odd Authorization headers around it
OddHeaders(base) ==
    { <<>>, <<Word("Bearer")>>, <<Tok(base)>>,
      <<Word("Bearer"), SP>>, <<Word("Bearer"), SP, SP>>,
      <<Word("Basic"), SP, Tok(base)>>,
      <<Word("bearer"), SP, Tok(base)>>,
      <<Word("BEARER"), SP, SP, Tok(base), SP>>,
      <<SP, Word("Bearer"), SP, Tok(base)>>,
      <<Word("Bearer"), SP, Word("opaque")>> }

\* <<header, payload, issuer>> of the tokens tried against a JWKS URL: they
\* tell the kids and the key types apart
UrlIssued ==
    { <<RS256Seg("k1"), BaseSeg, RsaIssuer(N1, D1)>>,
      <<RS256Seg("k2"), BaseSeg, RsaIssuer(N2, D2)>>,
      <<RS256Seg("k3"), BaseSeg, RsaIssuer(N1, D1)>>,
      <<RS256Seg("k1"), BaseSeg, RsaIssuer(N2, D2)>>,
      <<RS256Seg("k2"), BaseSeg, RsaIssuer(N1, D1)>>,
      <<Seg(JObj([alg |-> JStr("RS256")])), BaseSeg, RsaIssuer(N1, D1)>>,
      <<Seg(JObj([alg |-> JStr("HS256"), kid |-> JStr("k1")])), BaseSeg, HmacIssuer("s1")>>,
      <<Seg(JObj(HS256Header)), BaseSeg, HmacIssuer("s1")>> }

\* the Authorization headers tried against a configuration with a JWKS URL
\* (url) and against every other configuration (any)
Requests ==
    With([i \in Issued \cup UrlIssued |-> _issue_token(i[1], i[2], i[3])], LAMBDA signed :
      With(signed[<<Seg(JObj(HS256Header)), BaseSeg, HmacIssuer("s1")>>], LAMBDA base :
        [url |-> { Bearer(signed[i]) : i \in UrlIssued } \cup { NoHeader },
         any |-> { Bearer(signed[i]) : i \in Issued }
                   \cup { Bearer(t) : t \in
                            Forged(base, signed[<<RS256Seg("k1"), BaseSeg, RsaIssuer(N1, D1)>>]) }
                   \cup { HeaderValue(a) : a \in OddHeaders(base) }
                   \cup { NoHeader }]))

\* the requests tried against a configuration
Inputs(cfg) == Requests[IF IsSet(cfg.auth_jwks_url) THEN "url" ELSE "any"]

(***************************************************************************)
(* Key resolution against the static document, the two process-wide caches *)
(* and the JWKS URL.  Monotonic time is counted in half seconds.            *)
(***************************************************************************)
\* a value of _JWKS_CACHE for the configured URL: absent, or (expiry, jwks)
NoEntry == [set |-> FALSE, expiry |-> 0, jwks |-> JNull]
Entry(expiry, jwks) == [set |-> TRUE, expiry |-> expiry, jwks |-> jwks]

\* what httpx.get(url).json() produces: a document, or an httpx.HTTPError /
\* ValueError
Served(jwks) == [ok |-> TRUE, jwks |-> jwks]
FetchError == [ok |-> FALSE, jwks |-> JNull]

\* _fetch_jwks with a document that is still reused at its expiry time
_fetch_jwksAtExpiry(cache, cache_seconds, now, response) ==
    IF cache.set /\ now <= cache.expiry
    THEN [res |-> Ok(cache.jwks), cache |-> cache, nfetch |-> 0]
    ELSE IF ~response.ok
    THEN [res |-> Fail(Unauthorized("jwks_fetch_error")), cache |-> cache, nfetch |-> 1]
    ELSE [res |-> Ok(response.jwks),
          cache |-> Entry(now + (2 * cache_seconds), response.jwks),
          nfetch |-> 1]

\* _fetch_jwks: the result, the cache afterwards and the number of requests
\* sent to the URL
_fetch_jwks(cache, cache_seconds, now, response) ==
    IF cache.set /\ now < cache.expiry
    THEN [res |-> Ok(cache.jwks), cache |-> cache, nfetch |-> 0]
    ELSE IF ~response.ok
    THEN [res |-> Fail(Unauthorized("jwks_fetch_error")), cache |-> cache, nfetch |-> 1]
    ELSE [res |-> Ok(response.jwks),
          cache |-> Entry(now + (2 * cache_seconds), response.jwks),
          nfetch |-> 1]

Resolved(res, cache, keys, nfetch, kid, looked) ==
    [res |-> res, jwks_cache |-> cache, jwk_key_cache |-> keys,
     nfetch |-> nfetch, kid |-> kid, looked |-> looked]

\* the lines of _resolve_jwk_key after the lookup in the static document
\* missed: the key cache, then the fetch and the loop over its keys
ResolveRemote(cfg, kid, cache, keys, now, response) ==
    IF kid \in DOMAIN keys
    THEN Resolved(Ok(JwkKey(keys[kid])), cache, keys, 0, kid, TRUE)
    ELSE With(_fetch_jwks(cache, cfg.auth_jwks_cache_seconds, now, response),
           LAMBDA fetched :
             IF ~fetched.res.ok
             THEN Resolved(fetched.res, fetched.cache, keys, fetched.nfetch, kid, TRUE)
             ELSE With(KeyTable(cfg, KeysOf(fetched.res.val).items) @@ keys,
                    LAMBDA populated :
                      Resolved(IF kid \in DOMAIN populated
                               THEN Ok(JwkKey(populated[kid]))
                               ELSE Fail(Unauthorized("unknown_kid")),
                               fetched.cache, populated, fetched.nfetch, kid, TRUE)))

\* a run that ends early and drops what the caches hold
StopClearing(res, cache, keys) == Resolved(res, NoEntry, <<>>, 0, NONE, FALSE)

\* a run of _resolve_jwk_key that ends before the lookup in the key cache
Stop(res, cache, keys) == Resolved(res, cache, keys, 0, NONE, FALSE)

\* the kid of a token as a key of the tables, whose keys are all str: a
\* kid that is no str is equal to none of them
DictKey(kid) == IF kid.t = "str" THEN kid.s ELSE NONE

\* a resolution that does not look into the static document
_resolve_jwk_key_remote_only(cfg, token, cache, keys, now, response) ==
    With(_parse_header(token), LAMBDA header :
      IF ~header.ok THEN Stop(header, cache, keys)
      ELSE IF ~IsMapping(header.val)
      THEN Stop(Fail(Unhandled("AttributeError")), cache, keys)
      ELSE IF ~Truthy(Get(header.val, "kid"))
      THEN Stop(Fail(Unauthorized("missing_kid")), cache, keys)
      ELSE IF ~IsSet(cfg.auth_jwks_url)
      THEN Stop(Fail(Unauthorized("missing_signing_key")), cache, keys)
      ELSE ResolveRemote(cfg, DictKey(Get(header.val, "kid")), cache, keys, now, response))

\* AuthBackend._resolve_jwk_key; looked tells whether the run came to the
\* lookup in _JWK_KEY_CACHE
_resolve_jwk_key(cfg, token, cache, keys, now, response) ==
    With(_parse_header(token), LAMBDA header :
      IF ~header.ok THEN Stop(header, cache, keys)
      ELSE IF ~IsMapping(header.val)
      THEN Stop(Fail(Unhandled("AttributeError")), cache, keys)
      ELSE IF ~Truthy(Get(header.val, "kid"))
      THEN Stop(Fail(Unauthorized("missing_kid")), cache, keys)
      ELSE IF Get(header.val, "kid").t \in {"list", "obj"}
      THEN Stop(Fail(Unhandled("TypeError")), cache, keys)
      ELSE With(<<DictKey(Get(header.val, "kid")), _parse_static_jwks(cfg)>>,
             LAMBDA found :
               IF found[1] \in DOMAIN found[2]
               THEN Stop(Ok(JwkKey(found[2][found[1]])), cache, keys)
               ELSE IF ~IsSet(cfg.auth_jwks_url)
               THEN Stop(Fail(Unauthorized("missing_signing_key")), cache, keys)
               ELSE ResolveRemote(cfg, found[1], cache, keys, now, response)))

\* the str | None secret as the key argument of _decode_with_key
SecretKey(secret) == IF secret = NONE THEN NoKey ELSE StrKey(secret)

Answer(out, key, ran, r) ==
    [out |-> out, key |-> key, ran |-> ran, jwks_cache |-> r.jwks_cache,
     jwk_key_cache |-> r.jwk_key_cache, nfetch |-> r.nfetch, kid |-> r.kid,
     looked |-> r.looked]

\* the last two lines of __call__: decode under the key, then build the user
Authenticate(cfg, token, r, time) ==
    With(_decode_with_key(cfg, token, r.res.val, time), LAMBDA decoded :
      Answer(IF ~decoded.res.ok THEN decoded.res.err
             ELSE _user_from_payload(cfg, decoded.res.val),
             r.res.val, decoded.ran, r))

\* a backend that asks for a bearer token before it looks at the provider
_call_extracting_first(cfg, authorization, cache, keys, time, monotonic, response) ==
    With(_extract_token(authorization), LAMBDA token :
      IF ~token.ok
      THEN Answer(token.err, NoKey, "none", Stop(Ok(NoKey), cache, keys))
      ELSE IF cfg.auth_provider = "mock"
      THEN Answer(_mock_user(cfg), NoKey, "none", Stop(Ok(NoKey), cache, keys))
      ELSE With(IF cfg.auth_provider = "jwks"
                THEN _resolve_jwk_key(cfg, token.val, cache, keys, monotonic, response)
                ELSE Stop(Ok(SecretKey(cfg.auth_shared_secret)), cache, keys),
             LAMBDA r :
               IF ~r.res.ok THEN Answer(r.res.err, NoKey, "none", r)
               ELSE Authenticate(cfg, token.val, r, time)))

\* AuthBackend.__call__ on a freshly built AuthBackend(settings)
__call__(cfg, authorization, cache, keys, time, monotonic, response) ==
    IF cfg.auth_provider = "mock"
    THEN Answer(_mock_user(cfg), NoKey, "none", Stop(Ok(NoKey), cache, keys))
    ELSE With(_extract_token(authorization), LAMBDA token :
           IF ~token.ok
           THEN Answer(token.err, NoKey, "none", Stop(Ok(NoKey), cache, keys))
           ELSE With(IF cfg.auth_provider = "jwks"
                     THEN _resolve_jwk_key(cfg, token.val, cache, keys, monotonic, response)
                     ELSE Stop(Ok(SecretKey(cfg.auth_shared_secret)), cache, keys),
                  LAMBDA r :
                    IF ~r.res.ok THEN Answer(r.res.err, NoKey, "none", r)
                    ELSE Authenticate(cfg, token.val, r, time)))

(***************************************************************************)
(* The request pipeline as a state machine                                 *)
(***************************************************************************)
MaxClock == 2

\* what the JWKS URL can serve
Responses == { Served(JwksDoc(<<K1, K2>>)), Served(JwksDoc(<<K2>>)), FetchError }

\* history: the last verification that came to the lookup in the key cache,
\* with its kid, its monotonic time, the requests it sent to the URL and
\* whether its fetch failed
Never == [kid |-> NONE, at |-> -1, nfetch |-> 0, failed |-> FALSE, born |-> <<>>]

\* the monotonic time of the fetch that produced each entry of the key
\* cache, after a verification: a run that missed the key cache and got a
\* document writes the keys of that document, which was fetched when its
\* entry in the document cache began
Born(a, born) ==
    IF a.looked /\ a.kid \notin DOMAIN jwk_key_cache /\ a.out.detail # "jwks_fetch_error"
    THEN [kid \in DOMAIN a.jwk_key_cache |->
            IF kid \in DOMAIN KeyTable(settings, KeysOf(a.jwks_cache.jwks).items)
            THEN a.jwks_cache.expiry - (2 * settings.auth_jwks_cache_seconds)
            ELSE born[kid]]
    ELSE born

Idle ==
    [pc |-> "idle", authorization |-> NoHeader, key |-> NoKey, now |-> 0,
     start |-> 0, ran |-> "none", out |-> Unhandled(NONE), nfetch |-> 0,
     kid |-> NONE, looked |-> FALSE, prev |-> Never, stale |-> FALSE]

NoCall == [op |-> "none"]

Init ==
    /\ settings \in SettingsUniverse
    /\ wall = 0
    /\ mono = 0
    /\ jwks_cache = NoEntry
    /\ jwk_key_cache = <<>>
    /\ remote = Served(JwksDoc(<<K1, K2>>))
    /\ req = Idle
    /\ hist = Never
    /\ call = NoCall

\* _get_user: AuthBackend(settings)(authorization), from the first line
\* to the return or the raise
Call(authorization) ==
    /\ req.pc = "idle"
    /\ \E a \in { __call__(settings, authorization, jwks_cache, jwk_key_cache,
                           wall, mono, remote) } :
           /\ req' = [pc |-> "done", authorization |-> authorization,
                      key |-> a.key, now |-> wall, start |-> mono, ran |-> a.ran,
                      out |-> a.out, nfetch |-> a.nfetch, kid |-> a.kid,
                      looked |-> a.looked, prev |-> hist,
                      stale |-> jwks_cache.set /\ mono >= jwks_cache.expiry]
           /\ jwks_cache' = a.jwks_cache
           /\ jwk_key_cache' = a.jwk_key_cache
           /\ hist' = IF a.looked
                      THEN [kid |-> a.kid, at |-> mono, nfetch |-> a.nfetch,
                            failed |-> a.out.detail = "jwks_fetch_error",
                            born |-> Born(a, hist.born)]
                      ELSE hist
    /\ UNCHANGED <<settings, wall, mono, remote, call>>

\* the response has been sent; the worker waits for the next request
Return ==
    /\ req.pc = "done"
    /\ req' = Idle
    /\ UNCHANGED <<settings, wall, mono, jwks_cache, jwk_key_cache, remote, hist, call>>

\* half a second passes on time.time() and time.monotonic()
Tick ==
    /\ req.pc = "idle"
    /\ wall < MaxClock
    /\ wall' = wall + 1
    /\ mono' = mono + 1
    /\ UNCHANGED <<settings, jwks_cache, jwk_key_cache, remote, req, hist, call>>

\* the issuer rotates its keys, or its endpoint goes down or comes back
Rotate ==
    /\ req.pc = "idle"
    /\ IsSet(settings.auth_jwks_url)
    /\ remote' \in Responses \ {remote}
    /\ UNCHANGED <<settings, wall, mono, jwks_cache, jwk_key_cache, req, hist, call>>

\* reset_security_state
reset_security_state ==
    /\ req.pc = "idle"
    /\ IsSet(settings.auth_jwks_url)
    /\ jwks_cache' = NoEntry
    /\ jwk_key_cache' = <<>>
    /\ hist' = Never
    /\ UNCHANGED <<settings, wall, mono, remote, req, call>>

Next ==
    \/ \E authorization \in Inputs(settings) : Call(authorization)
    \/ Return
    \/ Tick
    \/ Rotate
    \/ reset_security_state

Spec == Init /\ [][Next]_vars

(***************************************************************************)
(* The role gate, the claims validator and the role mapping on their own:  *)
(* each specification applies one function to inputs drawn from a bounded  *)
(* set and keeps the call and its result in the variable call.             *)
(***************************************************************************)
InitPure ==
    /\ settings = DefaultSettings
    /\ wall = 0
    /\ mono = 0
    /\ jwks_cache = NoEntry
    /\ jwk_key_cache = <<>>
    /\ remote = FetchError
    /\ req = Idle
    /\ hist = Never
    /\ call = NoCall

\* the users and the required roles the gate is tried with
GateRoles == {"Admin", "Floor", "Purchasing"}
GateUsers == { User(id, roles) : id \in {"user-1", "demo"}, roles \in SUBSET GateRoles }
GateRequired ==
    { <<>>, <<"Admin">>, <<"Purchasing", "Admin">>, <<"Admin", "Admin">>,
      <<"Driver">>, <<"Floor", "Purchasing", "Admin">>, <<"AP", "Floor">> }

\* dependency(user) of require_roles(*required)
Gate(required, user) ==
    /\ call = NoCall
    /\ call' = [op |-> "require_roles", required |-> required, user |-> user,
                out |-> require_roles(required, user)]
    /\ UNCHANGED <<settings, wall, mono, jwks_cache, jwk_key_cache, remote, req, hist>>

NextGate == \E required \in GateRequired, user \in GateUsers : Gate(required, user)

SpecGate == InitPure /\ [][NextGate]_vars

\* the last value of time.time() the validator is tried with, in half
\* seconds
MaxNow == 8

\* the exp claims the validator is tried with; the other claims are valid
ExpPayloads ==
    { JObj([sub |-> JStr("user-1")]) }
      \cup { JObj([sub |-> JStr("user-1"), exp |-> e]) : e \in
               { JNull, JInt(-1), JInt(0), JInt(1), JInt(2), JInt(3), JInt(4), JInt(5),
                 JFloat(3), JFloat(4), JFloat(5), JFloat(-1),
                 JStr("2"), JStr(" 2 "), JStr("3"), JStr("soon"), JStr(""),
                 JBool(TRUE), JBool(FALSE), JInf, JNaN,
                 JList(<<JInt(3)>>), JObj([value |-> JInt(3)]) } }

\* _validate_claims(payload) with time.time() = now
Validate(require_exp, payload, now) ==
    /\ call = NoCall
    /\ call' = [op |-> "_validate_claims", require_exp |-> require_exp,
                payload |-> payload, now |-> now,
                out |-> _validate_claims(
                          [DefaultSettings EXCEPT !.auth_require_exp = require_exp],
                          payload, now)]
    /\ UNCHANGED <<settings, wall, mono, jwks_cache, jwk_key_cache, remote, req, hist>>

NextValidate ==
    \E require_exp \in BOOLEAN, payload \in ExpPayloads, now \in 0..MaxNow :
        Validate(require_exp, payload, now)

SpecValidate == InitPure /\ [][NextValidate]_vars

\* the configured role mappings and the role sets the mapping is tried with
RoleMappings ==
    { NoMapping,
      [clerk |-> JList(<<JText(<<"Purchasing">>)>>)],
      [Admin |-> JList(<<JText(<<"A">>), JText(<<SPACE, "B">>)>>),
       Floor |-> JText(<<"Floor2">>),
       Viewer |-> JList(<<JText(<<SPACE>>)>>)],
      [Admin |-> JText(<<>>)],
      [Floor |-> JList(<<>>)],
      [Admin |-> JText(<<"Floor">>), Floor |-> JText(<<"Admin">>)],
      [clerk |-> JList(<<JText(<<"AP">>), JText(<<"clerk">>), JText(<<"AP", SPACE>>)>>),
       Viewer |-> JText(<<SPACE, "Viewer">>)] }

MappedRoles == {"Admin", "Floor", "clerk", "Viewer"}

\* AuthBackend(settings)._map_roles(roles)
MapRoles(mapping, roles) ==
    /\ call = NoCall
    /\ call' = [op |-> "_map_roles", mapping |-> mapping, roles |-> roles,
                out |-> _map_roles(_normalise_role_mapping(mapping), roles)]
    /\ UNCHANGED <<settings, wall, mono, jwks_cache, jwk_key_cache, remote, req, hist>>

NextRoles == \E mapping \in RoleMappings, roles \in SUBSET MappedRoles : MapRoles(mapping, roles)

SpecRoles == InitPure /\ [][NextRoles]_vars

(***************************************************************************)
(* The role gate                                                           *)
(***************************************************************************)
\* C1: the dependency built by require_roles returns the user it was given,
\* id and roles unchanged, exactly when a required role is among the user's
\* roles; in every other case, an empty list of required roles included, it
\* fails with 403 insufficient_role.
GateDecidesByIntersection ==
    call.op = "require_roles" =>
        IF Range(call.required) \cap call.user.roles # {}
        THEN call.out = call.user
        ELSE /\ call.out.kind = "http"
             /\ call.out.status = 403
             /\ call.out.detail = "insufficient_role"

\* a user holding one of the two required roles has passed
GatePasses ==
    /\ call.op = "require_roles"
    /\ call.required = <<"Purchasing", "Admin">>
    /\ call.user.roles = {"Floor", "Admin"}
    /\ call.out = call.user

(***************************************************************************)
(* The exp check of the claims validator                                   *)
(***************************************************************************)
\* the integer an exp claim stands for: int(exp) for an int, a finite float
\* or a numeric string; none otherwise
ExpInteger(exp) ==
    CASE exp.t = "int" -> [some |-> TRUE, i |-> exp.i]
      [] exp.t = "float" ->
           [some |-> TRUE,
            i |-> IF exp.halves >= 0 THEN exp.halves \div 2 ELSE -((-exp.halves) \div 2)]
      [] exp.t = "str" -> [some |-> IntOfStr(exp.s).ok, i |-> IntOfStr(exp.s).v]
      [] OTHER -> [some |-> FALSE, i |-> 0]

\* C7: the exp check decides for every payload and clock value: exp absent
\* fails with invalid_token when require_exp is set and passes when it is
\* not; exp that is no int, float or numeric string fails with
\* invalid_token; exp coerced to an integer fails with token_expired when
\* exp <= now and passes when exp > now.  (A JSON true or false is left
\* open: Python counts it as an int.)
ExpCheckDecides ==
    call.op = "_validate_claims" =>
        LET exp == Get(call.payload, "exp")
            e == ExpInteger(exp)
        IN  CASE IsNone(exp) ->
                   IF call.require_exp
                   THEN ~call.out.ok /\ call.out.err = Unauthorized("invalid_token")
                   ELSE call.out.ok
              [] exp.t = "bool" -> TRUE
              [] ~e.some -> ~call.out.ok /\ call.out.err = Unauthorized("invalid_token")
              [] e.some /\ 2 * e.i <= call.now ->
                   ~call.out.ok /\ call.out.err = Unauthorized("token_expired")
              [] OTHER -> call.out.ok

(***************************************************************************)
(* The role mapping                                                        *)
(***************************************************************************)
\* C9: for every role set and every mapping table built from configuration,
\* a role that is not a key of the table is in the result unchanged, and a
\* role that is a key contributes every member of its replacement set.
MapRolesKeepsAndReplaces ==
    call.op = "_map_roles" =>
        LET table == _normalise_role_mapping(call.mapping)
        IN  \A role \in call.roles :
               IF role \in DOMAIN table
               THEN table[role] \subseteq call.out
               ELSE role \in call.out

\* Admin has been mapped to both A and B next to a role without a mapping
MappedToBoth ==
    /\ call.op = "_map_roles"
    /\ call.roles = {"Admin", "clerk"}
    /\ "Admin" \in DOMAIN _normalise_role_mapping(call.mapping)
    /\ call.out = {"A", "B", "clerk"}

(***************************************************************************)
(* The request pipeline                                                    *)
(***************************************************************************)
Done == req.pc = "done"

VerifiesTokens == settings.auth_provider \in {"shared_secret", "jwks"}

\* the key a request is to be verified under: the shared secret, or a key
\* of the static document or of the key cache
SelectedKey(key) ==
    IF settings.auth_provider = "shared_secret"
    THEN key = StrKey(settings.auth_shared_secret)
    ELSE /\ key.kind = "jwk"
         /\ key.jwk \in Range(_parse_static_jwks(settings)) \cup Range(jwk_key_cache)

\* the stages after the extraction of the token, each one looked at on its
\* own
StagesSucceeded(token, key, ran, now) ==
    With(_parse_token(token), LAMBDA parsed :
      /\ parsed.ok
      /\ IsMapping(parsed.val.header)
      /\ With(Get(parsed.val.header, "alg"), LAMBDA alg :
            /\ alg.t = "str"
            /\ alg.s \in AllowedAlgorithms(settings)
            /\ SelectedKey(key)
            /\ \/ /\ alg.s \in DOMAIN _HMAC_ALGORITHMS
                  /\ ran = "hmac"
                  /\ key.kind = "str"
                  /\ Digest(_HMAC_ALGORITHMS[alg.s], key.s, parsed.val.signing_input)
                        = parsed.val.signature
               \/ /\ alg.s \in DOMAIN _RSA_ALGORITHMS
                  /\ ran = "rsa"
                  /\ key.kind = "jwk"
                  /\ _verify_rsa(parsed.val.signing_input, parsed.val.signature,
                                 key.jwk, alg.s).ok)
      /\ _validate_claims(settings, parsed.val.payload, now).ok
      /\ ~IsNone(_extract_claim(parsed.val.payload, settings.auth_user_id_claim)))

\* C2: with provider shared_secret or jwks a User is returned only at the
\* end of a run in which every stage succeeded: a bearer token was
\* extracted, its three segments parsed, the header alg was in the
\* allow-list, the signature verified under the selected key, the exp, aud
\* and iss claims validated and a user id was found.
UserOnlyAfterEveryStage ==
    (Done /\ VerifiesTokens /\ req.out.kind = "user") =>
        With(_extract_token(req.authorization), LAMBDA token :
          token.ok /\ StagesSucceeded(token.val, req.key, req.ran, req.now))

\* an RSA token has been accepted under a key fetched from the JWKS URL
UserFromFetchedKey ==
    /\ Done
    /\ req.out.kind = "user"
    /\ req.ran = "rsa"
    /\ req.nfetch = 1
    /\ req.key.jwk \in Range(jwk_key_cache)

\* whether the token is what an issuer holding the secret builds from the
\* token's own header and payload
SignedWith(token, secret) ==
    /\ Len(token.head) = 2
    /\ token = _issue_token(token.head[1], token.head[2], HmacIssuer(secret))

\* the header alg of a token that names an HMAC algorithm of the allow-list
HmacAllowed(token) ==
    /\ token.head[1].enc = "ok"
    /\ IsMapping(token.head[1].json)
    /\ With(Get(token.head[1].json, "alg"), LAMBDA alg :
          /\ alg.t = "str"
          /\ alg.s \in DOMAIN _HMAC_ALGORITHMS
          /\ alg.s \in AllowedAlgorithms(settings))

\* C3, as stated: for any payload, a token signed with the secret and an
\* allow-listed HMAC algorithm is accepted by the shared_secret backend
\* holding the same secret, and the User's id equals the payload's sub.
RoundTripAnyPayload ==
    (Done /\ settings.auth_provider = "shared_secret") =>
        With(_extract_token(req.authorization), LAMBDA token :
          (/\ token.ok
           /\ SignedWith(token.val, settings.auth_shared_secret)
           /\ HmacAllowed(token.val)
           /\ token.val.head[2].enc = "ok"
           /\ IsMapping(token.val.head[2].json))
          => /\ req.out.kind = "user"
             /\ req.out.id = PyStr(Get(token.val.head[2].json, "sub")))

\* C3, amended: the round trip succeeds for every payload that is a JSON
\* object whose exp, aud and iss claims pass the validation at the time of
\* the request and that carries the user-id claim; the User's id is str()
\* of that claim (sub unless configured otherwise).
RoundTripValidPayload ==
    (Done /\ settings.auth_provider = "shared_secret") =>
        With(_extract_token(req.authorization), LAMBDA token :
          (/\ token.ok
           /\ SignedWith(token.val, settings.auth_shared_secret)
           /\ HmacAllowed(token.val)
           /\ token.val.head[2].enc = "ok"
           /\ IsMapping(token.val.head[2].json)
           /\ _validate_claims(settings, token.val.head[2].json, req.now).ok
           /\ ~IsNone(_extract_claim(token.val.head[2].json, settings.auth_user_id_claim)))
          => /\ req.out.kind = "user"
             /\ req.out.id = PyStr(_extract_claim(token.val.head[2].json,
                                                  settings.auth_user_id_claim)))

\* a token with an integer sub, signed with HS256 and the shared secret, has
\* been accepted
RoundTripIntegerSub ==
    /\ Done
    /\ settings.auth_provider = "shared_secret"
    /\ req.ran = "hmac"
    /\ req.out.kind = "user"
    /\ req.out.id = "7"

\* whether AuthBackend accepts the token now
Accepted(token) ==
    __call__(settings, Bearer(token), jwks_cache, jwk_key_cache, req.now, req.start,
             remote).out.kind = "user"

\* the token with one bit of its signature segment flipped is accepted
FlipOfValid(token) ==
    \E pos \in DOMAIN token.tail, bit \in 0..7 :
        Accepted(Token(token.head, FlipBit(token.tail, pos, bit)))

\* the token signed with the configured secret is accepted, and this one is
\* signed with another secret
ResignedValid(token) ==
    /\ settings.auth_provider = "shared_secret"
    /\ \E other \in {"s1", "s2"} \ {settings.auth_shared_secret} :
          SignedWith(token, other)
    /\ Accepted(_issue_token(token.head[1], token.head[2],
                             HmacIssuer(settings.auth_shared_secret)))

\* C4: starting from any valid token, flipping any single bit of its
\* signature segment, or re-signing it with a different secret, always
\* makes verification fail with 401 invalid_token.
TamperingIsInvalidToken ==
    (Done /\ VerifiesTokens) =>
        With(_extract_token(req.authorization), LAMBDA token :
          (token.ok /\ (FlipOfValid(token.val) \/ ResignedValid(token.val)))
             => req.out = Unauthorized("invalid_token"))

\* the alg a request's token names in its header, NONE when there is none
RequestAlgorithm ==
    With(_extract_token(req.authorization), LAMBDA token :
      IF ~token.ok THEN NONE
      ELSE With(_parse_header(token.val), LAMBDA header :
             IF header.ok /\ IsMapping(header.val) /\ Get(header.val, "alg").t = "str"
             THEN Get(header.val, "alg").s ELSE NONE))

\* C5: a token naming HS256 is never accepted under the allow-list RS256,
\* and a token naming RS256 never under the allow-list HS256, whatever its
\* signature and claims.
AlgorithmConfusionRejected ==
    (Done /\ VerifiesTokens) =>
        With(RequestAlgorithm, LAMBDA alg :
          (\/ alg = "HS256" /\ settings.auth_algorithms = <<"RS256">>
           \/ alg = "RS256" /\ settings.auth_algorithms = <<"HS256">>)
             => req.out.kind # "user")

\* an HS256 token signed with the configured secret has been refused under
\* the allow-list RS256
ValidHmacRefusedUnderRsaOnly ==
    /\ Done
    /\ settings.auth_provider = "shared_secret"
    /\ settings.auth_algorithms = <<"RS256">>
    /\ req.authorization =
          Bearer(_issue_token(Seg(JObj(HS256Header)), BaseSeg,
                              HmacIssuer(settings.auth_shared_secret)))
    /\ req.out = Unauthorized("disallowed_algorithm")

\* C6: in shared_secret and in jwks mode, a structurally valid token whose
\* header alg is not in the allow-list, or is in it but in neither the HMAC
\* nor the RSA family, fails with 401 disallowed_algorithm, and no signature
\* verification runs before that.
DisallowedAlgorithmFirst ==
    (Done /\ VerifiesTokens) =>
        With(_extract_token(req.authorization), LAMBDA token :
          (/\ token.ok
           /\ _parse_token(token.val).ok
           /\ IsMapping(_parse_token(token.val).val.header)
           /\ IsMapping(_parse_token(token.val).val.payload)
           /\ With(RequestAlgorithm, LAMBDA alg :
                 /\ alg \notin {NONE, ""}
                 /\ \/ alg \notin AllowedAlgorithms(settings)
                    \/ alg \notin DOMAIN _HMAC_ALGORITHMS \cup DOMAIN _RSA_ALGORITHMS))
          => /\ req.out = Unauthorized("disallowed_algorithm")
             /\ req.ran = "none")

\* C8: every User AuthBackend produces, in mock mode and in the
\* token-verifying modes, has all the default roles, whatever the role
\* claim of the token holds.
DefaultRolesIncluded ==
    (Done /\ req.out.kind = "user") =>
        Range(settings.auth_default_roles) \subseteq req.out.roles

\* a token whose role claim is a number has been accepted: the user has the
\* two default roles and no other
OnlyDefaultRoles ==
    /\ Done
    /\ VerifiesTokens
    /\ req.out.kind = "user"
    /\ req.out.id = "u-9"
    /\ settings.auth_default_roles = <<"Floor", "AP">>
    /\ req.out.roles = {"Floor", "AP"}

\* C10: in jwks mode, for a kid that is not in the static document, two
\* verifications against the same kid within jwks_cache_seconds of each
\* other send at most one request to the JWKS URL (a first one whose fetch
\* failed aside), and a verification against that kid after the TTL of the
\* cached document has expired sends a new request.
OneFetchPerTtl ==
    (Done /\ req.looked /\ req.prev.kid = req.kid) =>
        /\ (~req.prev.failed
              /\ req.start - req.prev.at < 2 * settings.auth_jwks_cache_seconds)
               => req.prev.nfetch + req.nfetch <= 1
        /\ req.stale => req.nfetch >= 1

(***************************************************************************)
(* The static JWKS document                                                *)
(***************************************************************************)
\* the kid a request's token names in its header, NONE when there is none
RequestKid(authorization) ==
    With(_extract_token(authorization), LAMBDA token :
      IF ~token.ok THEN NONE
      ELSE With(_parse_header(token.val), LAMBDA header :
             IF header.ok /\ IsMapping(header.val) /\ Get(header.val, "kid").t = "str"
             THEN Get(header.val, "kid").s ELSE NONE))

\* the keys list of the configured static document
StaticItems == KeysOf(settings.auth_jwks_static).items

\* the positions of the static document's keys with this kid that have kty
\* RSA and an alg that is absent or in the allow-list
ListedRsaKeys(kid) ==
    { j \in DOMAIN StaticItems :
        /\ IsMapping(StaticItems[j])
        /\ IsStrEq(Get(StaticItems[j], "kid"), kid)
        /\ IsStrEq(Get(StaticItems[j], "kty"), "RSA")
        /\ \/ IsNone(Get(StaticItems[j], "alg"))
           \/ /\ Get(StaticItems[j], "alg").t = "str"
              /\ Get(StaticItems[j], "alg").s \in AllowedAlgorithms(settings) }

\* those of them that carry a modulus and an exponent
UsableRsaKeys(kid) ==
    { j \in ListedRsaKeys(kid) :
        IsStr(Get(StaticItems[j], "n")) /\ IsStr(Get(StaticItems[j], "e")) }

\* a verification in jwks mode runs from the first line to the last
Verification == req.pc = "idle" /\ req'.pc = "done" /\ settings.auth_provider = "jwks"

\* the verification resolved the key at position j of the static document
\* and neither sent a request nor came to the caches
ResolvedOffline(j) ==
    /\ req'.key = JwkKey(StaticItems[j])
    /\ req'.nfetch = 0
    /\ ~req'.looked
    /\ UNCHANGED <<jwks_cache, jwk_key_cache>>

StaticOnly ==
    /\ settings.auth_provider = "jwks"
    /\ settings.auth_jwks_static = JwksDoc(<<K1>>)
    /\ "RS256" \in AllowedAlgorithms(settings)
    /\ ~IsSet(settings.auth_audience)
    /\ ~IsSet(settings.auth_issuer)
    /\ settings.auth_user_id_claim = <<"sub">>
    /\ settings.auth_require_exp

\* the request carries the token of the tests under this kid, signed with
\* the private key of k1
SignedByK1(kid) ==
    With(_extract_token(req.authorization), LAMBDA token :
      /\ token.ok
      /\ token.val.head = <<RS256Seg(kid), BaseSeg>>
      /\ token.val = _issue_token(RS256Seg(kid), BaseSeg, RsaIssuer(N1, D1)))

\* C12: with the jwks provider and a static document of the one RSA key k1,
\* a token signed with the matching private key under the header {alg RS256,
\* kid k1} is accepted, and the same token under the kid k2 fails with 401
\* unknown_kid.
StaticScenario ==
    (Done /\ StaticOnly) =>
        /\ SignedByK1("k1") => req.out.kind = "user"
        /\ SignedByK1("k2") => req.out = Unauthorized("unknown_kid")

\* the token under the kid k1 has been accepted under the static key
StaticK1Accepted ==
    /\ Done
    /\ StaticOnly
    /\ SignedByK1("k1")
    /\ req.out = User("user-1", {"Admin", "Floor"})
    /\ req.key = JwkKey(K1)

(***************************************************************************)
(* Mock mode                                                               *)
(***************************************************************************)
\* C13: with provider mock every request is answered with the user demo
\* holding the mock roles and the default roles, whatever its Authorization
\* header is, and no token is extracted, parsed or verified.
MockAnswersEveryRequest ==
    (Done /\ settings.auth_provider = "mock") =>
        /\ req.out = User("demo", Range(settings.auth_mock_roles)
                                    \cup Range(settings.auth_default_roles))
        /\ req.key = NoKey
        /\ req.ran = "none"
        /\ ~req.looked
        /\ req.nfetch = 0

\* a request without a usable bearer token has been answered with the user
\* demo holding a mock role and a default role
MockIgnoresHeader ==
    /\ Done
    /\ settings.auth_provider = "mock"
    /\ ~_extract_token(req.authorization).ok
    /\ settings.auth_mock_roles = <<"Viewer">>
    /\ req.out = User("demo", {"Viewer", "Floor"})

(***************************************************************************)
(* The extraction of the bearer token on its own                           *)
(***************************************************************************)
\* the longest Authorization header the extraction is tried with, in atoms
MaxAtoms == 4

\* the atoms the headers are built from
HeaderAtoms ==
    { SP, TAB, Word("Bearer"), Word("BEARER"), Word("Basic"),
      Tok(Token(<<>>, <<65, 46, 66, 46, 67>>)) }

ExtractInputs ==
    { NoHeader } \cup
    { HeaderValue(a) : a \in UNION { [1..n -> HeaderAtoms] : n \in 0..MaxAtoms } }

\* AuthBackend(settings)._extract_token(authorization)
Extract(authorization) ==
    /\ call = NoCall
    /\ call' = [op |-> "_extract_token", authorization |-> authorization,
                out |-> _extract_token_str(authorization)]
    /\ UNCHANGED <<settings, wall, mono, jwks_cache, jwk_key_cache, remote, req, hist>>

NextExtract == \E authorization \in ExtractInputs : Extract(authorization)

SpecExtract == InitPure /\ [][NextExtract]_vars

IsWhitespace(atom) == atom.a \in {"sp", "tab"}

\* t is the text without the whitespace around it, and is not empty
TrimmedTo(text, t) ==
    \E i \in 0..Len(text), j \in 0..Len(text) :
        /\ i + j < Len(text)
        /\ \A k \in 1..i : IsWhitespace(text[k])
        /\ \A k \in (Len(text) - j + 1)..Len(text) : IsWhitespace(text[k])
        /\ ~IsWhitespace(text[i + 1])
        /\ ~IsWhitespace(text[Len(text) - j])
        /\ t = SubSeq(text, i + 1, Len(text) - j)

\* what the header value has before and after its first space
SchemeOf(atoms) ==
    SubSeq(atoms, 1, (CHOOSE i \in DOMAIN atoms :
                        atoms[i] = SP /\ \A k \in 1..(i - 1) : atoms[k] # SP) - 1)
CredentialsOf(atoms) ==
    SubSeq(atoms, (CHOOSE i \in DOMAIN atoms :
                     atoms[i] = SP /\ \A k \in 1..(i - 1) : atoms[k] # SP) + 1, Len(atoms))

\* C14: the extraction answers missing_token for an absent or empty header,
\* invalid_authorization_header for a header without a space, invalid_token
\* when the scheme is not bearer in any letter case or the token is blank,
\* and otherwise returns the token without the whitespace around it.
ExtractTokenDecides ==
    call.op = "_extract_token" =>
        LET atoms == call.authorization.atoms IN
        IF ~call.authorization.present \/ atoms = <<>>
        THEN call.out = Fail(Unauthorized("missing_token"))
        ELSE IF \A k \in DOMAIN atoms : atoms[k] # SP
        THEN call.out = Fail(Unauthorized("invalid_authorization_header"))
        ELSE IF \/ SchemeOf(atoms) \notin { <<Word("Bearer")>>, <<Word("BEARER")>>,
                                            <<Word("bearer")>> }
                \/ \A k \in DOMAIN CredentialsOf(atoms) : IsWhitespace(CredentialsOf(atoms)[k])
        THEN call.out = Fail(Unauthorized("invalid_token"))
        ELSE /\ call.out.ok
             /\ TrimmedTo(CredentialsOf(atoms), call.out.val)

\* the token has been taken out of a header with an upper-case scheme and
\* whitespace around the token
ExtractedTrimmedToken ==
    /\ call.op = "_extract_token"
    /\ call.authorization =
          HeaderValue(<<Word("BEARER"), SP, TAB, Tok(Token(<<>>, <<65, 46, 66, 46, 67>>))>>)
    /\ call.out = Ok(<<Tok(Token(<<>>, <<65, 46, 66, 46, 67>>))>>)

(***************************************************************************)
(* The structure of a token                                                *)
(***************************************************************************)
\* a non-empty text over the base64url alphabet whose length a decoder
\* accepts, with or without "=" at its end
IsBase64Url(chars) ==
    \E pads \in 0..2 :
        /\ Len(chars) > pads
        /\ (Len(chars) - pads) % 4 # 1
        /\ \A k \in DOMAIN chars :
              IF k > Len(chars) - pads THEN chars[k] = PadChar
              ELSE \/ chars[k] \in 65..90
                   \/ chars[k] \in 97..122
                   \/ chars[k] \in 48..57
                   \/ chars[k] \in {45, 95}

\* exactly three non-empty base64url segments whose header and payload
\* decode to JSON objects
WellFormedToken(token) ==
    /\ Len(token.head) = 2
    /\ \A k \in 1..2 : token.head[k].enc = "ok" /\ IsMapping(token.head[k].json)
    /\ IsBase64Url(token.tail)

\* C15: a bearer token that is not exactly three non-empty base64url
\* segments whose header and payload decode to JSON objects fails with 401
\* invalid_token and with no other outcome.
MalformedIsInvalidToken ==
    (Done /\ VerifiesTokens) =>
        With(_extract_token(req.authorization), LAMBDA token :
          (token.ok /\ ~WellFormedToken(token.val))
             => req.out = Unauthorized("invalid_token"))

\* a token of two segments has been refused as invalid_token
TwoSegmentsRefused ==
    /\ Done
    /\ VerifiesTokens
    /\ With(_extract_token(req.authorization), LAMBDA token :
          token.ok /\ Len(Parts(token.val)) = 2)
    /\ req.out = Unauthorized("invalid_token")

(***************************************************************************)
(* Failures                                                                *)
(***************************************************************************)
\* the details AuthBackend gives its 401 responses
ErrorCodes ==
    { "missing_token", "invalid_authorization_header", "invalid_token",
      "disallowed_algorithm", "missing_signing_key", "missing_kid", "unknown_kid",
      "jwks_fetch_error", "token_expired", "missing_user_id" }

\* C16: with provider shared_secret or jwks every request that is not
\* answered with a User is answered with 401, one of the error codes as
\* detail and the WWW-Authenticate: Bearer challenge; and a User who holds
\* none of the required roles is answered with 403 insufficient_role.
FailuresAreTyped ==
    (Done /\ VerifiesTokens) =>
        IF req.out.kind = "user"
        THEN \A required \in GateRequired :
                Range(required) \cap req.out.roles = {}
                   => require_roles(required, req.out)
                        = HTTPException(403, "insufficient_role", FALSE)
        ELSE /\ req.out.kind = "http"
             /\ req.out.status = 401
             /\ req.out.www
             /\ req.out.detail \in ErrorCodes

\* a request has failed with 401 unknown_kid and the challenge
UnknownKidChallenged ==
    /\ Done
    /\ req.out = Unauthorized("unknown_kid")
    /\ req.out.www
    /\ req.nfetch = 1

(***************************************************************************)
(* The audience and the issuer on their own                                *)
(***************************************************************************)
\* a claim the payload does not have
Absent == [t |-> "absent"]

\* the aud and iss claims, the settings and the clock the validator is
\* tried with
AudClaims ==
    { Absent, JNull, JStr("a1"), JStr("a2"), JStr(""), JInt(1),
      JList(<<>>), JList(<<JStr("a2")>>), JList(<<JStr("a2"), JStr("a1")>>),
      JList(<<JInt(1), JStr("a1")>>), JList(<<JList(<<JStr("a1")>>)>>),
      JObj([a1 |-> JStr("a1")]) }
IssClaims ==
    { Absent, JNull, JStr("i1"), JStr("i2"), JStr(""), JInt(1), JList(<<JStr("i1")>>) }
AudienceSettings == { NONE, "", "a1" }
IssuerSettings == { NONE, "", "i1" }
ExpClaims == { JInt(1), JInt(FarFuture) }
AudienceClock == { 0, 2 }

WithClaim(fields, name, value) ==
    IF value = Absent THEN fields ELSE [k \in {name} |-> value] @@ fields

\* _validate_claims(payload) under an audience and an issuer setting
ValidateAudience(audience, issuer, payload, now) ==
    /\ call = NoCall
    /\ call' = [op |-> "_validate_claims", audience |-> audience, issuer |-> issuer,
                payload |-> payload, now |-> now,
                out |-> _validate_claims(
                          [DefaultSettings EXCEPT !.auth_audience = audience,
                                                  !.auth_issuer = issuer],
                          payload, now)]
    /\ UNCHANGED <<settings, wall, mono, jwks_cache, jwk_key_cache, remote, req, hist>>

NextAudience ==
    \E audience \in AudienceSettings, issuer \in IssuerSettings, aud \in AudClaims,
       iss \in IssClaims, exp \in ExpClaims, now \in AudienceClock :
        ValidateAudience(audience, issuer,
            JObj(WithClaim(WithClaim([sub |-> JStr("user-1"), exp |-> exp], "aud", aud),
                           "iss", iss)),
            now)

SpecAudience == InitPure /\ [][NextAudience]_vars

\* the aud claim is the configured string or a list that holds it
AudienceNamed(payload, audience) ==
    \/ IsStrEq(Get(payload, "aud"), audience)
    \/ /\ Get(payload, "aud").t = "list"
       /\ \E k \in DOMAIN Get(payload, "aud").items :
             IsStrEq(Get(payload, "aud").items[k], audience)

\* the payload without one of its claims
Without(payload, name) ==
    JObj([k \in DOMAIN payload.fields \ {name} |-> payload.fields[k]])

\* the outcome of the call for another payload
Revalidated(payload) ==
    _validate_claims([DefaultSettings EXCEPT !.auth_audience = call.audience,
                                            !.auth_issuer = call.issuer],
                     payload, call.now)

\* C17: for a token that gets past the exp check, the validator passes it
\* exactly when the configured audience is the aud claim or a member of the
\* aud list and the configured issuer is the iss string, and answers
\* invalid_token otherwise; an audience (issuer) that is not configured
\* leaves the aud (iss) claim without an effect on the outcome.
AudienceIssuerEnforced ==
    (call.op = "_validate_claims" /\ "audience" \in DOMAIN call) =>
        /\ 2 * Get(call.payload, "exp").i > call.now =>
              /\ call.out.ok <=>
                    /\ IsSet(call.audience) => AudienceNamed(call.payload, call.audience)
                    /\ IsSet(call.issuer) => IsStrEq(Get(call.payload, "iss"), call.issuer)
              /\ ~call.out.ok => call.out = Fail(Unauthorized("invalid_token"))
        /\ ~IsSet(call.audience) => call.out = Revalidated(Without(call.payload, "aud"))
        /\ ~IsSet(call.issuer) => call.out = Revalidated(Without(call.payload, "iss"))

\* a token whose aud list holds the audience behind another one and whose
\* iss is the issuer has passed
AudienceFoundInList ==
    /\ call.op = "_validate_claims"
    /\ "audience" \in DOMAIN call
    /\ call.audience = "a1"
    /\ call.issuer = "i1"
    /\ Get(call.payload, "aud") = JList(<<JStr("a2"), JStr("a1")>>)
    /\ call.out.ok

(***************************************************************************)
(* The derivation of the user on its own                                   *)
(***************************************************************************)
\* the verified payloads and the settings the derivation is tried with
DerivePayloads ==
    { p \in PayloadJsons : IsMapping(p) } \cup
    { JObj([BasePayload EXCEPT !.sub = v]) :
        v \in { JNull, JStr(""), JInt(0), JBool(FALSE), JStr("user-2") } } \cup
    { JObj([BasePayload EXCEPT !.roles = v]) :
        v \in { JNull, JText(<<>>), JText(<<"Admin">>), JText(<<SPACE, "Admin", SPACE>>),
                JText(<<"Admin", COMMA, COMMA, SPACE, "Floor", SPACE, COMMA>>),
                JList(<<JText(<<"Admin">>), JText(<<"Admin">>), JText(<<SPACE>>)>>),
                JList(<<JText(<<"Admin", COMMA, "Floor">>)>>),
                JObj([Admin |-> JBool(TRUE)]) } } \cup
    { JObj([user |-> JStr("u-9"), exp |-> JInt(FarFuture)]) }

DeriveSettings ==
    { DefaultSettings } \cup UserSettings(DefaultSettings) \cup
    { [DefaultSettings EXCEPT !.auth_roles_claim = <<"app_metadata", "", "roles">>],
      [DefaultSettings EXCEPT !.auth_roles_claim = <<>>,
                              !.auth_default_roles = <<"Admin", "AP">>],
      [DefaultSettings EXCEPT !.auth_role_mapping = [Admin |-> JText(<<"Floor">>)]] }

\* AuthBackend(cfg)._user_from_payload(payload)
DeriveUser(cfg, payload) ==
    /\ call = NoCall
    /\ call' = [op |-> "_user_from_payload", cfg |-> cfg, payload |-> payload,
                out |-> _user_from_payload(cfg, payload)]
    /\ UNCHANGED <<settings, wall, mono, jwks_cache, jwk_key_cache, remote, req, hist>>

NextDerive == \E cfg \in DeriveSettings, payload \in DerivePayloads : DeriveUser(cfg, payload)

SpecDerive == InitPure /\ [][NextDerive]_vars

\* C18: for a verified payload the derivation answers missing_user_id when
\* the user-id path resolves to nothing; otherwise it yields the User whose
\* id is the resolved value as a string and whose roles are exactly the
\* mapped, normalised roles claim together with the default roles, so that
\* {sub user-1, roles "Admin,Floor"} yields user-1 with Admin, Floor and the
\* default roles when neither role is mapped.
DeriveUserDecides ==
    call.op = "_user_from_payload" =>
        LET resolved == _extract_claim(call.payload, call.cfg.auth_user_id_claim)
            mapping == _normalise_role_mapping(call.cfg.auth_role_mapping)
        IN  IF IsNone(resolved)
            THEN call.out = Unauthorized("missing_user_id")
            ELSE /\ call.out.kind = "user"
                 /\ resolved.t = "str" => call.out.id = resolved.s
                 /\ resolved = JInt(7) => call.out.id = "7"
                 /\ call.out.roles =
                       _map_roles(mapping,
                                  _normalise_roles(
                                    _extract_claim(call.payload, call.cfg.auth_roles_claim)))
                         \cup Range(call.cfg.auth_default_roles)
                 /\ (/\ call.payload = JObj(BasePayload)
                     /\ call.cfg.auth_user_id_claim = <<"sub">>
                     /\ call.cfg.auth_roles_claim = <<"roles">>
                     /\ DOMAIN mapping \cap {"Admin", "Floor"} = {})
                    => call.out = User("user-1", {"Admin", "Floor"}
                                                  \cup Range(call.cfg.auth_default_roles))

\* a nested roles claim has been mapped and joined with the default role
DerivedMappedUser ==
    /\ call.op = "_user_from_payload"
    /\ call.cfg.auth_roles_claim = <<"app_metadata", "roles">>
    /\ call.cfg.auth_default_roles = <<"Floor">>
    /\ call.out = User("user-3", {"Purchasing", "Floor"})

(***************************************************************************)
(* The lifetime of cached documents and keys                               *)
(***************************************************************************)
\* C19: without a reset, a verification that resolves its key through the
\* caches uses no document and no key whose fetch lies more than
\* jwks_cache_seconds back, so that a kid the issuer has withdrawn stops
\* resolving once that time has passed.
CachedKeysExpire ==
    (Done /\ req.looked /\ req.key.kind = "jwk") =>
        req.start - hist.born[req.kid] <= 2 * settings.auth_jwks_cache_seconds

\* a key of the key cache has been used again half a second after its
\* fetch, within the cache time of one second, and no request was sent
CachedKeyUsedInTime ==
    /\ Done
    /\ req.looked
    /\ req.out.kind = "user"
    /\ req.nfetch = 0
    /\ settings.auth_jwks_cache_seconds = 1
    /\ req.start - hist.born[req.kid] = 1

(***************************************************************************)
(* A verification in jwks mode step by step.  _get_user is a plain def, so *)
(* the framework runs it on a worker thread; between two steps of the key  *)
(* resolution another thread can clear the caches or run a verification of *)
(* its own.  The variable call holds the frame of the resolution: the      *)
(* token's kid, the value of time.monotonic(), the document jwks and the   *)
(* position of the loop over its keys.                                     *)
(***************************************************************************)
InitSteps == Init /\ IsSet(settings.auth_jwks_url)

Frame(authorization, kid) ==
    [op |-> "_resolve_jwk_key", authorization |-> authorization, kid |-> kid,
     now |-> 0, jwks |-> JNull, i |-> 1, nfetch |-> 0]

\* the request record of a verification that has ended
Ended(authorization, out, key, ran, nfetch, kid, looked) ==
    [pc |-> "done", authorization |-> authorization, key |-> key, now |-> wall,
     start |-> mono, ran |-> ran, out |-> out, nfetch |-> nfetch, kid |-> kid,
     looked |-> looked, prev |-> hist, stale |-> FALSE]

\* __call__ up to the lookup in _JWK_KEY_CACHE (security.py lines 56-314):
\* the run ends here unless the lookup misses
Begin(authorization) ==
    /\ req.pc = "idle"
    /\ \E a \in { __call__(settings, authorization, jwks_cache, jwk_key_cache,
                           wall, mono, remote) } :
          IF a.looked /\ a.kid \notin DOMAIN jwk_key_cache
          THEN /\ req' = [Idle EXCEPT !.pc = "fetch", !.authorization = authorization]
               /\ call' = Frame(authorization, a.kid)
          ELSE /\ req' = Ended(authorization, a.out, a.key, a.ran, 0, a.kid, a.looked)
               /\ call' = Frame(authorization, a.kid)
    /\ UNCHANGED <<settings, wall, mono, jwks_cache, jwk_key_cache, remote, hist>>

\* _fetch_jwks, lines 454-458: a document of the cache that is still fresh
\* is returned, otherwise the request to the URL is sent
FetchCheck ==
    /\ req.pc = "fetch"
    /\ IF jwks_cache.set /\ mono < jwks_cache.expiry
       THEN /\ call' = [call EXCEPT !.now = mono, !.jwks = jwks_cache.jwks]
            /\ req' = [req EXCEPT !.pc = "populate"]
       ELSE /\ call' = [call EXCEPT !.now = mono]
            /\ req' = [req EXCEPT !.pc = "get"]
    /\ UNCHANGED <<settings, wall, mono, jwks_cache, jwk_key_cache, remote, hist>>

\* _fetch_jwks, lines 460-470: the response arrives; an error ends the
\* verification, a document is stored and returned
FetchGet ==
    /\ req.pc = "get"
    /\ IF ~remote.ok
       THEN /\ req' = Ended(call.authorization, Unauthorized("jwks_fetch_error"),
                            NoKey, "none", 1, call.kid, TRUE)
            /\ call' = [call EXCEPT !.nfetch = 1]
            /\ UNCHANGED jwks_cache
       ELSE /\ jwks_cache' = Entry(call.now + (2 * settings.auth_jwks_cache_seconds),
                                   remote.jwks)
            /\ call' = [call EXCEPT !.jwks = remote.jwks, !.nfetch = 1]
            /\ req' = [req EXCEPT !.pc = "populate"]
    /\ UNCHANGED <<settings, wall, mono, jwk_key_cache, remote, hist>>

\* one round of the loop over the keys of the document, lines 319-325
Populate ==
    /\ req.pc = "populate"
    /\ call.i <= Len(KeysOf(call.jwks).items)
    /\ With(KeysOf(call.jwks).items[call.i], LAMBDA jwk_data :
          IF /\ IsMapping(jwk_data)
             /\ Truthy(Get(jwk_data, "kid"))
             /\ ~IsNone(_jwk_to_key(settings, jwk_data))
          THEN jwk_key_cache' = (PyStr(Get(jwk_data, "kid")) :> jwk_data) @@ jwk_key_cache
          ELSE UNCHANGED jwk_key_cache)
    /\ call' = [call EXCEPT !.i = @ + 1]
    /\ UNCHANGED <<settings, wall, mono, jwks_cache, remote, req, hist>>

\* the lookup after the loop, lines 327-333, and the rest of __call__
Lookup ==
    /\ req.pc = "populate"
    /\ call.i > Len(KeysOf(call.jwks).items)
    /\ IF call.kid \notin DOMAIN jwk_key_cache
       THEN req' = Ended(call.authorization, Unauthorized("unknown_kid"), NoKey, "none",
                         call.nfetch, call.kid, TRUE)
       ELSE \E a \in { Authenticate(settings, _extract_token(call.authorization).val,
                                     Resolved(Ok(JwkKey(jwk_key_cache[call.kid])),
                                              jwks_cache, jwk_key_cache, call.nfetch,
                                              call.kid, TRUE),
                                     wall) } :
               req' = Ended(call.authorization, a.out, a.key, a.ran, call.nfetch,
                            call.kid, TRUE)
    /\ UNCHANGED <<settings, wall, mono, jwks_cache, jwk_key_cache, remote, hist, call>>

\* the response has been sent and the frame is gone
Finish ==
    /\ req.pc = "done"
    /\ req' = Idle
    /\ call' = NoCall
    /\ UNCHANGED <<settings, wall, mono, jwks_cache, jwk_key_cache, remote, hist>>

\* reset_security_state on another thread while the verification is under
\* way
ConcurrentReset ==
    /\ req.pc \in {"fetch", "get", "populate"}
    /\ jwks_cache' = NoEntry
    /\ jwk_key_cache' = <<>>
    /\ UNCHANGED <<settings, wall, mono, remote, req, hist, call>>

\* a verification on another thread, from its first line to its last, while
\* this one is under way: it can fetch a document and write keys
ConcurrentRefresh(authorization) ==
    /\ req.pc \in {"fetch", "get", "populate"}
    /\ \E a \in { __call__(settings, authorization, jwks_cache, jwk_key_cache,
                           wall, mono, remote) } :
          /\ a.nfetch = 1
          /\ jwks_cache' = a.jwks_cache
          /\ jwk_key_cache' = a.jwk_key_cache
    /\ UNCHANGED <<settings, wall, mono, remote, req, hist, call>>

NextSteps ==
    \/ \E authorization \in Inputs(settings) : Begin(authorization)
    \/ FetchCheck
    \/ FetchGet
    \/ Populate
    \/ Lookup
    \/ Finish
    \/ ConcurrentReset
    \/ \E authorization \in Inputs(settings) : ConcurrentRefresh(authorization)
    \/ Tick
    \/ Rotate

SpecSteps == InitSteps /\ [][NextSteps]_vars

\* the keys the loop writes for the document the verification fetched or
\* read
FrameKeys == KeyTable(settings, KeysOf(call.jwks).items)

\* C20: a verification in jwks mode whose kid is in the document it
\* fetched or read resolves the key of that document, and does not fail
\* with unknown_kid, whatever another thread clears or writes in the caches
\* while it is under way.
EvictionKeepsOutcome ==
    (Done /\ call.op = "_resolve_jwk_key" /\ call.kid \in DOMAIN FrameKeys) =>
        /\ req.out # Unauthorized("unknown_kid")
        /\ req.key = JwkKey(FrameKeys[call.kid])

\* a verification has fetched the document, written its keys and resolved
\* the key of its kid by the lookup after the loop
FetchedKeyResolved ==
    /\ Done
    /\ call.op = "_resolve_jwk_key"
    /\ call.nfetch = 1
    /\ call.kid \in DOMAIN FrameKeys
    /\ req.key = JwkKey(FrameKeys[call.kid])
    /\ req.out # Unauthorized("unknown_kid")

(***************************************************************************)
(* Two verifications in jwks mode on two worker threads, step by step and  *)
(* in every interleaving, while time passes and the issuer changes what    *)
(* the URL serves.  The variable call holds the frame of each worker; hist *)
(* holds the workers in the order in which their fetches stored a          *)
(* document.                                                               *)
(***************************************************************************)
Workers == {1, 2}

\* the RSA configurations with a JWKS URL and no static document
RaceSettings ==
    { c \in UrlSettings : c.auth_algorithms = <<"RS256">> /\ IsNone(c.auth_jwks_static) }

\* the requests with the tokens the issuer signed for its keys k1 and k2
RaceInputs ==
    { Bearer(_issue_token(RS256Seg("k1"), BaseSeg, RsaIssuer(N1, D1))),
      Bearer(_issue_token(RS256Seg("k2"), BaseSeg, RsaIssuer(N2, D2))) }

Waiting ==
    [pc |-> "idle", authorization |-> NoHeader, kid |-> NONE, now |-> 0,
     jwks |-> JNull, i |-> 1, nfetch |-> 0, out |-> Unhandled(NONE), key |-> NoKey]

InitRace ==
    /\ settings \in RaceSettings
    /\ wall = 0
    /\ mono = 0
    /\ jwks_cache = NoEntry
    /\ jwk_key_cache = <<>>
    /\ remote \in Responses
    /\ req = Idle
    /\ hist = <<>>
    /\ call = [w \in Workers |-> Waiting]

\* a store that keeps the later of the old and the new expiry
StoredWithLaterExpiry(now, cache_seconds, jwks) ==
    Entry(IF jwks_cache.set /\ jwks_cache.expiry > now + (2 * cache_seconds)
          THEN jwks_cache.expiry ELSE now + (2 * cache_seconds), jwks)

\* what _fetch_jwks stores at line 469
Stored(now, cache_seconds, jwks) == Entry(now + (2 * cache_seconds), jwks)

\* __call__ up to the lookup in _JWK_KEY_CACHE, lines 56-314
RaceBegin(w, authorization) ==
    /\ call[w].pc = "idle"
    /\ \E a \in { __call__(settings, authorization, jwks_cache, jwk_key_cache,
                           wall, mono, remote) } :
          call' = [call EXCEPT ![w] =
                     IF a.looked /\ a.kid \notin DOMAIN jwk_key_cache
                     THEN [Waiting EXCEPT !.pc = "fetch", !.authorization = authorization,
                                          !.kid = a.kid]
                     ELSE [Waiting EXCEPT !.pc = "done", !.authorization = authorization,
                                          !.kid = a.kid, !.out = a.out, !.key = a.key]]
    /\ UNCHANGED <<settings, wall, mono, jwks_cache, jwk_key_cache, remote, req, hist>>

\* _fetch_jwks, lines 454-458
RaceFetchCheck(w) ==
    /\ call[w].pc = "fetch"
    /\ call' = [call EXCEPT ![w] =
                  IF jwks_cache.set /\ mono < jwks_cache.expiry
                  THEN [@ EXCEPT !.pc = "populate", !.now = mono, !.jwks = jwks_cache.jwks]
                  ELSE [@ EXCEPT !.pc = "get", !.now = mono]]
    /\ UNCHANGED <<settings, wall, mono, jwks_cache, jwk_key_cache, remote, req, hist>>

\* _fetch_jwks, lines 460-470
RaceFetchGet(w) ==
    /\ call[w].pc = "get"
    /\ IF ~remote.ok
       THEN /\ call' = [call EXCEPT ![w] =
                          [@ EXCEPT !.pc = "done", !.nfetch = 1,
                                    !.out = Unauthorized("jwks_fetch_error")]]
            /\ UNCHANGED <<jwks_cache, hist>>
       ELSE /\ jwks_cache' = Stored(call[w].now, settings.auth_jwks_cache_seconds,
                                    remote.jwks)
            /\ hist' = Append(hist, w)
            /\ call' = [call EXCEPT ![w] =
                          [@ EXCEPT !.pc = "populate", !.nfetch = 1, !.jwks = remote.jwks]]
    /\ UNCHANGED <<settings, wall, mono, jwk_key_cache, remote, req>>

\* one round of the loop over the keys of the document, lines 319-325
RacePopulate(w) ==
    /\ call[w].pc = "populate"
    /\ call[w].i <= Len(KeysOf(call[w].jwks).items)
    /\ With(KeysOf(call[w].jwks).items[call[w].i], LAMBDA jwk_data :
          IF /\ IsMapping(jwk_data)
             /\ Truthy(Get(jwk_data, "kid"))
             /\ ~IsNone(_jwk_to_key(settings, jwk_data))
          THEN jwk_key_cache' = (PyStr(Get(jwk_data, "kid")) :> jwk_data) @@ jwk_key_cache
          ELSE UNCHANGED jwk_key_cache)
    /\ call' = [call EXCEPT ![w].i = @ + 1]
    /\ UNCHANGED <<settings, wall, mono, jwks_cache, remote, req, hist>>

\* the lookup after the loop, lines 327-333, and the rest of __call__
RaceLookup(w) ==
    /\ call[w].pc = "populate"
    /\ call[w].i > Len(KeysOf(call[w].jwks).items)
    /\ IF call[w].kid \notin DOMAIN jwk_key_cache
       THEN call' = [call EXCEPT ![w] =
                       [@ EXCEPT !.pc = "done", !.out = Unauthorized("unknown_kid")]]
       ELSE \E a \in { Authenticate(settings, _extract_token(call[w].authorization).val,
                                     Resolved(Ok(JwkKey(jwk_key_cache[call[w].kid])),
                                              jwks_cache, jwk_key_cache, call[w].nfetch,
                                              call[w].kid, TRUE),
                                     wall) } :
               call' = [call EXCEPT ![w] = [@ EXCEPT !.pc = "done", !.out = a.out,
                                                     !.key = a.key]]
    /\ UNCHANGED <<settings, wall, mono, jwks_cache, jwk_key_cache, remote, req, hist>>

\* half a second passes while a verification is under way
RaceTick ==
    /\ \E w \in Workers : call[w].pc \in {"fetch", "get", "populate"}
    /\ wall < MaxClock
    /\ wall' = wall + 1
    /\ mono' = mono + 1
    /\ UNCHANGED <<settings, jwks_cache, jwk_key_cache, remote, req, hist, call>>

\* the issuer changes what the URL serves while a verification is on its
\* way to the request
RaceRotate ==
    /\ \E w \in Workers : call[w].pc \in {"fetch", "get"}
    /\ remote' \in Responses \ {remote}
    /\ UNCHANGED <<settings, wall, mono, jwks_cache, jwk_key_cache, req, hist, call>>

NextRace ==
    \/ \E w \in Workers, authorization \in RaceInputs : RaceBegin(w, authorization)
    \/ \E w \in Workers : RaceFetchCheck(w)
    \/ \E w \in Workers : RaceFetchGet(w)
    \/ \E w \in Workers : RacePopulate(w)
    \/ \E w \in Workers : RaceLookup(w)
    \/ RaceTick
    \/ RaceRotate

SpecRace == InitRace /\ [][NextRace]_vars

\* the keys of the documents the workers' own fetches obtained
FetchedKeys ==
    UNION { Range(KeysOf(call[v].jwks).items) : v \in { u \in Workers : call[u].nfetch = 1 } }

\* C21: in every interleaving of two verifications in jwks mode against
\* one URL, a verification that has ended has a User from a key of a
\* document one of the fetches obtained, or a 401 with one of the error
\* codes; and the document cache holds the document and the expiry of the
\* fetch that stored last: the time that fetch read at its start plus
\* jwks_cache_seconds, and the document that fetch was served.
RacingFetchesLastWriteWins ==
    /\ \A w \in Workers :
          call[w].pc = "done" =>
             \/ /\ call[w].out.kind = "user"
                /\ call[w].key.kind = "jwk"
                /\ call[w].key.jwk \in FetchedKeys
             \/ /\ call[w].out.kind = "http"
                /\ call[w].out.status = 401
                /\ call[w].out.detail \in ErrorCodes
    /\ IF hist = <<>> THEN ~jwks_cache.set
       ELSE /\ jwks_cache.set
            /\ jwks_cache.expiry = call[hist[Len(hist)]].now
                                      + (2 * settings.auth_jwks_cache_seconds)
            /\ jwks_cache.jwks = call[hist[Len(hist)]].jwks

\* both verifications missed the document cache and fetched, at different
\* times and with different documents, and both ended with a User
BothFetchedAndPassed ==
    /\ \A w \in Workers : call[w].pc = "done" /\ call[w].nfetch = 1
                             /\ call[w].out.kind = "user"
    /\ Len(hist) = 2
    /\ call[1].now # call[2].now
    /\ call[1].jwks # call[2].jwks

(***************************************************************************)
(* Key resolution on its own: _resolve_jwk_key is applied again and again  *)
(* to tokens naming a kid, against documents whose keys differ in kty, alg *)
(* and modulus, while the two caches keep what the resolutions wrote.  The *)
(* variable call holds the last resolution: its token, the response of the *)
(* URL, the caches and the time it found, and its result.                  *)
(***************************************************************************)
\* K1 with one member changed or absent
K1With(name, value) == JObj([K1.fields EXCEPT ![name] = value])
K1Without(name) == JObj([m \in DOMAIN K1.fields \ {name} |-> K1.fields[m]])

ResolveDocuments ==
    { JwksDoc(<<K1>>), JwksDoc(<<K2>>), JwksDoc(<<>>), JList(<<K1>>),
      JwksDoc(<<K1With("alg", JStr("RS384"))>>),
      JwksDoc(<<K1With("kty", JStr("EC")), K2>>),
      JwksDoc(<<K1With("alg", JStr(""))>>),
      JwksDoc(<<K1Without("alg")>>),
      JwksDoc(<<K1Without("n")>>),
      JwksDoc(<<K1, K1With("kty", JStr("oct"))>>) }

ResolveResponses == { Served(d) : d \in ResolveDocuments } \cup { FetchError }

ResolveSettings ==
    LET url == [DefaultSettings EXCEPT !.auth_provider = "jwks",
                                       !.auth_shared_secret = NONE,
                                       !.auth_algorithms = <<"RS256">>,
                                       !.auth_jwks_url = URL,
                                       !.auth_jwks_cache_seconds = 1]
    IN  { url,
          [url EXCEPT !.auth_algorithms = <<"RS256", "RS384">>],
          [url EXCEPT !.auth_jwks_static = JwksDoc(<<K2>>)],
          [url EXCEPT !.auth_jwks_url = NONE, !.auth_jwks_static = JwksDoc(<<K2>>)] }

\* tokens whose header names the kid; the resolution does not look at the
\* signature
ResolveTokens == { Token(<<RS256Seg(kid), BaseSeg>>, <<65, 65>>) : kid \in {"k1", "k2", "k3"} }

InitResolve ==
    /\ settings \in ResolveSettings
    /\ wall = 0
    /\ mono = 0
    /\ jwks_cache = NoEntry
    /\ jwk_key_cache = <<>>
    /\ remote = FetchError
    /\ req = Idle
    /\ hist = Never
    /\ call = NoCall

Resolve(token, response) ==
    /\ \E r \in { _resolve_jwk_key(settings, token, jwks_cache, jwk_key_cache, mono,
                                    response) } :
          /\ call' = [op |-> "_resolve_jwk_key", token |-> token, response |-> response,
                      cache |-> jwks_cache, keys |-> jwk_key_cache, at |-> mono,
                      res |-> r.res, nfetch |-> r.nfetch]
          /\ jwks_cache' = r.jwks_cache
          /\ jwk_key_cache' = r.jwk_key_cache
    /\ UNCHANGED <<settings, wall, mono, remote, req, hist>>

NextResolve ==
    \/ \E token \in ResolveTokens, response \in ResolveResponses : Resolve(token, response)
    \/ Tick
    \/ reset_security_state

SpecResolve == InitResolve /\ [][NextResolve]_vars

\* the kid the token of the last resolution names
CallKid == Get(_parse_header(call.token).val, "kid").s

\* the document the last resolution obtained: the one of the document cache
\* while it is fresh, otherwise the one the URL served
Obtained ==
    IF call.cache.set /\ call.at < call.cache.expiry THEN Served(call.cache.jwks)
    ELSE call.response

\* a key of kty RSA whose alg is absent or in the allow-list
Eligible(jwk) ==
    /\ IsMapping(jwk)
    /\ IsStrEq(Get(jwk, "kty"), "RSA")
    /\ \/ IsNone(Get(jwk, "alg"))
       \/ /\ Get(jwk, "alg").t = "str"
          /\ Get(jwk, "alg").s \in AllowedAlgorithms(settings)

\* the keys of a document that carry the kid
KeysNamed(jwks, kid) ==
    { jwk \in Range(KeysOf(jwks).items) : IsMapping(jwk) /\ IsStrEq(Get(jwk, "kid"), kid) }

\* C22: a resolution for a kid that no key of the static document carries
\* fails with missing_signing_key when no JWKS URL is configured; fails with
\* unknown_kid when it misses the key cache and obtains a document that has
\* no key of kty RSA with that kid and an alg that is absent or in the
\* allow-list; and a resolution never returns a key whose kty is not RSA or
\* whose alg is outside the allow-list.
ResolutionOutsideStatic ==
    call.op = "_resolve_jwk_key" =>
        /\ KeysNamed(settings.auth_jwks_static, CallKid) = {} =>
              /\ ~IsSet(settings.auth_jwks_url)
                    => call.res = Fail(Unauthorized("missing_signing_key"))
              /\ ( /\ IsSet(settings.auth_jwks_url)
                   /\ CallKid \notin DOMAIN call.keys
                   /\ Obtained.ok
                   /\ \A jwk \in KeysNamed(Obtained.jwks, CallKid) : ~Eligible(jwk) )
                    => call.res = Fail(Unauthorized("unknown_kid"))
        /\ call.res.ok => Eligible(call.res.val.jwk)

\* a resolution has obtained a document whose only key with the kid has an
\* alg outside the allow-list, and has failed with unknown_kid
DisallowedKeySkipped ==
    /\ call.op = "_resolve_jwk_key"
    /\ Obtained.ok
    /\ \E jwk \in KeysNamed(Obtained.jwks, CallKid) : IsStrEq(Get(jwk, "alg"), "RS384")
    /\ call.res = Fail(Unauthorized("unknown_kid"))

(***************************************************************************)
(* Backends with different JWKS URLs in one process.  Here _JWKS_CACHE is  *)
(* a table from URL to entry and _JWK_KEY_CACHE a table from URL to the    *)
(* table from kid to key, which stands for the keys (url, kid).  The two   *)
(* URLs serve different keys under the same kid k1.  remote gives the      *)
(* response of each URL, call the URL of the last backend, and hist the    *)
(* documents each URL has served to a fetch.                               *)
(***************************************************************************)
URL2 == "https://other/jwks"

Urls == {URL, URL2}

\* the key the second issuer publishes under the kid k1
K1Other == Jwk("k1", N2, <<5>>)

\* what each URL can serve
UrlResponses ==
    [u \in Urls |->
        IF u = URL THEN { Served(JwksDoc(<<K1, K2>>)), FetchError }
        ELSE { Served(JwksDoc(<<K1Other>>)), Served(JwksDoc(<<K2, K1Other>>)) }]

\* the tokens of the two issuers
UrlInputs ==
    RaceInputs \cup { Bearer(_issue_token(RS256Seg("k1"), BaseSeg, RsaIssuer(N2, D2))) }

\* the settings of a backend with this JWKS URL
SettingsAt(url) == [settings EXCEPT !.auth_jwks_url = url]

\* a lookup that finds the entries of every URL
KeysAtAnyUrl(keys, url) ==
    [kid \in UNION { DOMAIN keys[u] : u \in Urls } |->
        IF kid \in DOMAIN keys[url] THEN keys[url][kid]
        ELSE keys[CHOOSE u \in Urls : kid \in DOMAIN keys[u]][kid]]

\* the entries _JWK_KEY_CACHE.get((jwks_url, kid)) can find
KeysAt(keys, url) == keys[url]

InitUrls ==
    /\ settings \in RaceSettings
    /\ wall = 0
    /\ mono = 0
    /\ jwks_cache = [u \in Urls |-> NoEntry]
    /\ jwk_key_cache = [u \in Urls |-> <<>>]
    /\ remote \in { f \in [Urls -> UNION { UrlResponses[u] : u \in Urls }] :
                      \A u \in Urls : f[u] \in UrlResponses[u] }
    /\ req = Idle
    /\ hist = [u \in Urls |-> {}]
    /\ call = NoCall

\* AuthBackend(settings)(authorization) for settings with this JWKS URL
UrlCall(url, authorization) ==
    /\ req.pc = "idle"
    /\ \E a \in { __call__(SettingsAt(url), authorization, jwks_cache[url],
                           KeysAt(jwk_key_cache, url), wall, mono, remote[url]) } :
           /\ req' = [pc |-> "done", authorization |-> authorization,
                      key |-> a.key, now |-> wall, start |-> mono, ran |-> a.ran,
                      out |-> a.out, nfetch |-> a.nfetch, kid |-> a.kid,
                      looked |-> a.looked, prev |-> Never, stale |-> FALSE]
           /\ jwks_cache' = [jwks_cache EXCEPT ![url] = a.jwks_cache]
           /\ jwk_key_cache' = [jwk_key_cache EXCEPT ![url] = a.jwk_key_cache]
           /\ hist' = IF a.nfetch = 1 /\ remote[url].ok
                      THEN [hist EXCEPT ![url] = @ \cup {remote[url].jwks}]
                      ELSE hist
    /\ call' = [op |-> "__call__", url |-> url]
    /\ UNCHANGED <<settings, wall, mono, remote>>

\* one of the issuers changes what its URL serves
UrlRotate(url) ==
    /\ req.pc = "idle"
    /\ \E response \in UrlResponses[url] \ {remote[url]} :
          remote' = [remote EXCEPT ![url] = response]
    /\ UNCHANGED <<settings, wall, mono, jwks_cache, jwk_key_cache, req, hist, call>>

\* reset_security_state: both dicts are cleared, for every URL
UrlReset ==
    /\ req.pc = "idle"
    /\ jwks_cache' = [u \in Urls |-> NoEntry]
    /\ jwk_key_cache' = [u \in Urls |-> <<>>]
    /\ UNCHANGED <<settings, wall, mono, remote, req, hist, call>>

NextUrls ==
    \/ \E url \in Urls, authorization \in UrlInputs : UrlCall(url, authorization)
    \/ \E url \in Urls : UrlRotate(url)
    \/ UrlReset
    \/ Return
    \/ Tick

SpecUrls == InitUrls /\ [][NextUrls]_vars

\* the keys with this kid in the documents a URL has served to a fetch
ServedKeys(url, kid) == UNION { KeysNamed(d, kid) : d \in hist[url] }

\* C23: every entry (url, kid) of the key cache is a key with that kid of a
\* document fetched from that URL, every entry of the document cache is a
\* document fetched from its URL, and a verification of a backend with one
\* JWKS URL that used a key used a key of a document fetched from that URL.
CachesKeptApartByUrl ==
    /\ \A url \in Urls :
          /\ \A kid \in DOMAIN jwk_key_cache[url] :
                jwk_key_cache[url][kid] \in ServedKeys(url, kid)
          /\ jwks_cache[url].set => jwks_cache[url].jwks \in hist[url]
    /\ (Done /\ req.key.kind = "jwk") => req.key.jwk \in ServedKeys(call.url, req.kid)

\* both URLs hold a key for the kid k1, each its own, and the backend of the
\* second URL has accepted the token of its issuer with the key cached for
\* it
SameKidTwoUrls ==
    /\ "k1" \in DOMAIN jwk_key_cache[URL]
    /\ "k1" \in DOMAIN jwk_key_cache[URL2]
    /\ jwk_key_cache[URL]["k1"] # jwk_key_cache[URL2]["k1"]
    /\ Done
    /\ call.url = URL2
    /\ req.kid = "k1"
    /\ req.nfetch = 0
    /\ req.out.kind = "user"

(***************************************************************************)
(* Verifications against a JWKS URL whose responses are given as they come *)
(* off the wire: a timeout, or a status and a body.  The variable call     *)
(* holds the response of the last verification and the caches it found.    *)
(***************************************************************************)
\* a body that json() cannot parse
NotJson == [t |-> "invalid"]

TimedOut == [timeout |-> TRUE, status |-> 0, body |-> NotJson]
Response(status, body) == [timeout |-> FALSE, status |-> status, body |-> body]

WireResponses ==
    { TimedOut,
      Response(200, JwksDoc(<<K1, K2>>)), Response(200, JwksDoc(<<K2>>)),
      Response(200, NotJson), Response(204, NotJson),
      Response(302, NotJson), Response(404, JwksDoc(<<K1, K2>>)),
      Response(500, JwksDoc(<<K2>>)), Response(503, NotJson) }

\* a fetch without raise_for_status
ReceivedWithoutStatusCheck(raw) ==
    IF raw.timeout THEN FetchError
    ELSE IF raw.body = NotJson THEN FetchError
    ELSE Served(raw.body)

\* lines 460-467 of _fetch_jwks: httpx.get raises httpx.TimeoutException,
\* raise_for_status raises httpx.HTTPStatusError for a status outside 2xx,
\* json() raises a ValueError; all three are caught
Received(raw) ==
    IF raw.timeout THEN FetchError
    ELSE IF raw.status < 200 \/ raw.status > 299 THEN FetchError
    ELSE IF raw.body = NotJson THEN FetchError
    ELSE Served(raw.body)

InitFetch ==
    /\ settings \in RaceSettings
    /\ wall = 0
    /\ mono = 0
    /\ jwks_cache = NoEntry
    /\ jwk_key_cache = <<>>
    /\ remote = FetchError
    /\ req = Idle
    /\ hist = Never
    /\ call = NoCall

\* _get_user while the URL would answer with raw
FetchCall(authorization, raw) ==
    /\ req.pc = "idle"
    /\ \E a \in { __call__(settings, authorization, jwks_cache, jwk_key_cache,
                           wall, mono, Received(raw)) } :
           /\ req' = [pc |-> "done", authorization |-> authorization,
                      key |-> a.key, now |-> wall, start |-> mono, ran |-> a.ran,
                      out |-> a.out, nfetch |-> a.nfetch, kid |-> a.kid,
                      looked |-> a.looked, prev |-> Never, stale |-> FALSE]
           /\ jwks_cache' = a.jwks_cache
           /\ jwk_key_cache' = a.jwk_key_cache
    /\ call' = [op |-> "httpx.get", raw |-> raw, cache |-> jwks_cache,
                keys |-> jwk_key_cache]
    /\ UNCHANGED <<settings, wall, mono, remote, hist>>

NextFetch ==
    \/ \E authorization \in Requests.url, raw \in WireResponses :
          FetchCall(authorization, raw)
    \/ Return
    \/ Tick
    \/ reset_security_state

SpecFetch == InitFetch /\ [][NextFetch]_vars

\* the last verification came to send a request to the URL: its token names
\* a kid that the key cache did not hold, and the document cache held no
\* fresh document
CameToFetch ==
    /\ Done
    /\ call.op = "httpx.get"
    /\ RequestKid(req.authorization) # NONE
    /\ RequestKid(req.authorization) \notin DOMAIN call.keys
    /\ ~(call.cache.set /\ req.start < call.cache.expiry)

\* the response was a timeout, a status outside 2xx or a body that is no
\* JSON
FetchFailed ==
    \/ call.raw.timeout
    \/ call.raw.status \notin 200..299
    \/ call.raw.body = NotJson

\* C24: a verification whose fetch times out, gets a status outside 2xx or
\* a body that is no JSON fails with 401 jwks_fetch_error after one request
\* to the URL, and the document cache and the key cache are as they were
\* before.
FailedFetchLeavesCaches ==
    (CameToFetch /\ FetchFailed) =>
        /\ req.out = Unauthorized("jwks_fetch_error")
        /\ req.nfetch = 1
        /\ jwks_cache = call.cache
        /\ jwk_key_cache = call.keys

\* a fetch has failed with status 500 while the caches held a document that
\* had expired and a key for another kid
FailedFetchBesideStaleDocument ==
    /\ CameToFetch
    /\ call.raw.status = 500
    /\ call.cache.set
    /\ call.keys # <<>>
    /\ req.out = Unauthorized("jwks_fetch_error")

(***************************************************************************)
(* What a verification leaves alone                                        *)
(***************************************************************************)
\* a verification runs from the first line to the last, whatever the
\* provider
AnyVerification == req.pc = "idle" /\ req'.pc = "done"

\* the verification needs no remote key: the provider is mock or
\* shared_secret, or the static document has a usable key for the token's
\* kid
NeedsNoRemoteKey ==
    \/ settings.auth_provider \in {"mock", "shared_secret"}
    \/ /\ settings.auth_provider = "jwks"
       /\ UsableRsaKeys(RequestKid(req'.authorization)) # {}

\* C25: a verification leaves the settings (and with them the role mapping
\* and the static keys, which each backend derives from the settings), the
\* clocks and the remote document alone; in mock and shared_secret mode, and
\* in jwks mode when the static document serves the kid, it sends no request
\* to the URL and leaves the document cache and the key cache unchanged.
VerificationFrame ==
    [][AnyVerification =>
         /\ UNCHANGED <<settings, wall, mono, remote>>
         /\ NeedsNoRemoteKey => /\ req'.nfetch = 0
                                /\ UNCHANGED <<jwks_cache, jwk_key_cache>>]_vars

\* a token has been accepted under a key of the static document while the
\* URL was down and the document cache held a document that had expired
StaticServedWhileUrlDown ==
    /\ Done
    /\ settings.auth_provider = "jwks"
    /\ UsableRsaKeys(RequestKid(req.authorization)) # {}
    /\ req.out.kind = "user"
    /\ ~remote.ok
    /\ jwks_cache.set
    /\ mono >= jwks_cache.expiry
    /\ jwk_key_cache # <<>>

(***************************************************************************)
(* The RSA verifier on its own: _verify_rsa is applied to keys with        *)
(* moduli and exponents of every kind, and to signatures that are genuine, *)
(* out of range, or built around an encoded message with one defect.       *)
(***************************************************************************)
RsaJwk(n, e) ==
    JObj([kty |-> JStr("RSA"), n |-> JChars(_b64url_encode(n)),
          e |-> JChars(_b64url_encode(e))])

\* moduli: the key N1, nothing, zero, one, 256 and a modulus of six bytes
Moduli == { N1, <<>>, <<0>>, <<0, 0>>, <<1>>, <<1, 0>>, <<200, 0, 0, 0, 0, 1>> }

Exponents == { <<3>>, <<1>>, <<>>, <<0>> }

RsaKeys ==
    { RsaJwk(n, e) : n \in Moduli, e \in Exponents }
      \cup { JObj([kty |-> JStr("EC"), n |-> JChars(_b64url_encode(N1)),
                   e |-> JChars(_b64url_encode(<<3>>))]),
             JObj([kty |-> JStr("RSA"), e |-> JChars(_b64url_encode(<<3>>))]),
             JObj([kty |-> JStr("RSA"), n |-> JInt(5), e |-> JChars(_b64url_encode(<<3>>))]),
             JObj([kty |-> JStr("RSA"), n |-> JChars(<<B64Char(0)>>),
                   e |-> JChars(_b64url_encode(<<3>>))]),
             JObj([kty |-> JStr("RSA"), n |-> JChars(_b64url_encode(N1)),
                   e |-> JChars(<<B64Char(0)>>)]) }

SigningInputs == { <<RS256Seg("k1"), BaseSeg>>, <<Seg(JObj(HS256Header)), BaseSeg>> }

\* DigestInfo and digest of a signing input
DigestInfoOf(signing_input, algorithm) ==
    _RSA_DIGEST_INFOS[algorithm] \o Digest(_RSA_ALGORITHMS[algorithm], NONE, signing_input)

\* 00 01, k padding bytes, 00 and the DigestInfo
Encoded(k, byte, info) == <<0, 1>> \o [j \in 1..k |-> byte] \o <<0>> \o info

\* the signatures tried with a signing input under an algorithm: those of
\* the key N1 (which is too short to sign under RS512), also lengthened by
\* a zero byte, encoded messages
\* as they are (the signatures of a key with the exponent 1), with and
\* without defects, and values out of range
SignaturesFor(signing_input, algorithm) ==
    With(<<IF Len(DigestInfoOf(signing_input, algorithm)) + 3 <= Len(N1)
           THEN RsaSign(signing_input, algorithm, N1, D1)
           ELSE <<2>>,
           DigestInfoOf(signing_input, algorithm)>>, LAMBDA g :
      { g[1], <<0>> \o g[1], FlipBit(g[1], Len(g[1]), 0),
        Encoded(0, 255, g[2]), Encoded(1, 255, g[2]), Encoded(2, 255, g[2]),
        Tail(Encoded(1, 255, g[2])),
        Encoded(1, 254, g[2]), Encoded(2, 0, g[2]),
        <<0, 2>> \o Tail(Tail(Encoded(1, 255, g[2]))),
        <<0, 1, 255, 255>> \o [j \in 1..(Len(g[2]) - 1) |-> 255],
        Encoded(1, 255, FlipBit(g[2], Len(g[2]), 0)),
        Encoded(1, 255, SubSeq(g[2], 1, Len(g[2]) - 1)),
        N1, <<255, 255, 255, 255, 255, 255, 255>>,
        <<>>, <<0>>, <<1>>, <<0, 1>> })

InitRsa == InitPure

VerifyRsa(signing_input, signature, jwk_data, algorithm) ==
    /\ call = NoCall
    /\ call' = [op |-> "_verify_rsa", signing_input |-> signing_input,
                signature |-> signature, jwk_data |-> jwk_data, algorithm |-> algorithm,
                out |-> _verify_rsa(signing_input, signature, jwk_data, algorithm)]
    /\ UNCHANGED <<settings, wall, mono, jwks_cache, jwk_key_cache, remote, req, hist>>

NextRsa ==
    \E signing_input \in SigningInputs, algorithm \in DOMAIN _RSA_ALGORITHMS :
      \E signature \in SignaturesFor(signing_input, algorithm), jwk_data \in RsaKeys :
        VerifyRsa(signing_input, signature, jwk_data, algorithm)

SpecRsa == InitRsa /\ [][NextRsa]_vars

\* the key of the call is an RSA key whose n and e are strings
HasStrings ==
    /\ call.op = "_verify_rsa"
    /\ IsStrEq(Get(call.jwk_data, "kty"), "RSA")
    /\ IsStr(Get(call.jwk_data, "n"))
    /\ IsStr(Get(call.jwk_data, "e"))

\* and the strings are base64url, so that the key has a modulus and an
\* exponent
HasNumbers ==
    /\ HasStrings
    /\ _b64url_decode(Get(call.jwk_data, "n").codes).ok
    /\ _b64url_decode(Get(call.jwk_data, "e").codes).ok

\* the bytes n and e decode to
ModulusBytes == _b64url_decode(Get(call.jwk_data, "n").codes).bytes
ExponentBytes == _b64url_decode(Get(call.jwk_data, "e").codes).bytes

\* a byte string without a byte that is not zero: the integer 0
IsZero(bytes) == \A j \in DOMAIN bytes : bytes[j] = 0

\* C26: with a key whose n or e decodes to no bytes or to zero bytes only,
\* so that the modulus or the exponent is 0, _verify_rsa fails for every
\* signature, signing input and algorithm.
ZeroKeyNeverVerifies ==
    (HasNumbers /\ (IsZero(ModulusBytes) \/ IsZero(ExponentBytes))) => ~call.out.ok

\* with the exponent 0 and the modulus 256 the encoded message is 00 01,
\* the start of a well-formed one, and the signature is refused
ZeroExponentRefused ==
    /\ HasNumbers
    /\ ExponentBytes = <<>>
    /\ ModulusBytes = <<1, 0>>
    /\ call.signature = <<1>>
    /\ call.out = Fail(Unauthorized("invalid_token"))

\* 00 01, then only FF bytes, then 00, then the DigestInfo
WellEncoded(em, info) ==
    \E k \in 0..Len(em) : em = <<0, 1>> \o [j \in 1..k |-> 255] \o <<0>> \o info

\* the signature of the call as an integer is below the modulus, and its
\* power, written in key_size bytes, is a well-encoded message for the
\* signing input
ShouldVerify ==
    With(<<FromBytes(call.signature), FromBytes(ModulusBytes), FromBytes(ExponentBytes)>>,
         LAMBDA x :
      /\ Less(x[1], x[2])
      /\ WellEncoded(ToBytes(PowMod(x[1], x[3], x[2]), (BitLength(x[2]) + 7) \div 8),
                     DigestInfoOf(call.signing_input, call.algorithm)))

\* C27: _verify_rsa accepts exactly when the signature, read as a
\* big-endian integer s, is below the modulus and s^exponent mod modulus,
\* written in ceil(bit_length(modulus) / 8) bytes, is 00 01, FF bytes, 00,
\* the DigestInfo prefix of the algorithm and the hash of the signing input;
\* for every other input, a key without a modulus or an exponent included,
\* it fails with 401 invalid_token.
RsaAcceptsExactlyWellEncoded ==
    call.op = "_verify_rsa" =>
        IF HasNumbers /\ ShouldVerify THEN call.out.ok
        ELSE call.out = Fail(Unauthorized("invalid_token"))

\* an encoded message without a single padding byte has been accepted as
\* the signature of a key with the exponent 1
UnpaddedMessageAccepted ==
    /\ HasNumbers
    /\ ExponentBytes = <<1>>
    /\ call.signature = Encoded(0, 255, DigestInfoOf(call.signing_input, call.algorithm))
    /\ call.out.ok

(***************************************************************************)
(* The life of a cached document: time.monotonic() advances, time.time()   *)
(* is set forwards and backwards at will, and the documents are kept for   *)
(* one second, for no time and for a negative time.                        *)
(***************************************************************************)
ClockSettings ==
    RaceSettings \cup { [c EXCEPT !.auth_jwks_cache_seconds = -1] : c \in RaceSettings }

\* hist is the monotonic time at the start of the fetch that produced the
\* document in the cache
NeverFetched == [born |-> -1]

InitClock ==
    /\ settings \in ClockSettings
    /\ wall = 0
    /\ mono = 0
    /\ jwks_cache = NoEntry
    /\ jwk_key_cache = <<>>
    /\ remote \in Responses
    /\ req = Idle
    /\ hist = NeverFetched
    /\ call = NoCall

\* _get_user: one whole verification
ClockCall(authorization) ==
    /\ \E a \in { __call__(settings, authorization, jwks_cache, jwk_key_cache,
                           wall, mono, remote) } :
           /\ jwks_cache' = a.jwks_cache
           /\ jwk_key_cache' = a.jwk_key_cache
           /\ hist' = IF a.nfetch = 1 /\ remote.ok THEN [born |-> mono] ELSE hist
           /\ call' = [op |-> "_get_user", cache |-> jwks_cache, keys |-> jwk_key_cache,
                       born |-> hist.born, start |-> mono, wall |-> wall,
                       kid |-> a.kid, looked |-> a.looked, nfetch |-> a.nfetch,
                       out |-> a.out]
    /\ UNCHANGED <<settings, wall, mono, remote, req>>

\* half a second passes on time.monotonic()
MonotonicTick ==
    /\ mono < MaxClock
    /\ mono' = mono + 1
    /\ UNCHANGED <<settings, wall, jwks_cache, jwk_key_cache, remote, req, hist, call>>

\* time.time() is set to another value, later or earlier
WallClockSet ==
    /\ wall' \in (0..MaxClock) \ {wall}
    /\ UNCHANGED <<settings, mono, jwks_cache, jwk_key_cache, remote, req, hist, call>>

\* the issuer rotates its keys, or its endpoint goes down or comes back
ClockRotate ==
    /\ remote' \in Responses \ {remote}
    /\ UNCHANGED <<settings, wall, mono, jwks_cache, jwk_key_cache, req, hist, call>>

\* reset_security_state
ClockReset ==
    /\ jwks_cache.set \/ jwk_key_cache # <<>>
    /\ jwks_cache' = NoEntry
    /\ jwk_key_cache' = <<>>
    /\ hist' = NeverFetched
    /\ UNCHANGED <<settings, wall, mono, remote, req, call>>

NextClock ==
    \/ \E authorization \in RaceInputs : ClockCall(authorization)
    \/ MonotonicTick
    \/ WallClockSet
    \/ ClockRotate
    \/ ClockReset

SpecClock == InitClock /\ [][NextClock]_vars

\* the last verification came to the key cache and missed it
MissedKeyCache ==
    /\ call.op = "_get_user"
    /\ call.looked
    /\ call.kid \notin DOMAIN call.keys

\* C28: the document in the cache expires at the monotonic time at the
\* start of its fetch plus jwks_cache_seconds; a resolution that misses the
\* key cache reuses the document exactly when there is one and the
\* monotonic clock is strictly before that time, whatever the wall clock
\* shows, and fetches otherwise; with jwks_cache_seconds <= 0 every such
\* resolution fetches.
DocumentLivesByMonotonicClock ==
    /\ jwks_cache.set =>
          jwks_cache.expiry = hist.born + (2 * settings.auth_jwks_cache_seconds)
    /\ MissedKeyCache =>
          /\ call.nfetch \in {0, 1}
          /\ call.nfetch = 0 <=>
                /\ call.cache.set
                /\ call.start < call.born + (2 * settings.auth_jwks_cache_seconds)
          /\ settings.auth_jwks_cache_seconds <= 0 => call.nfetch = 1

\* a document was reused although the wall clock had been set to its
\* expiry time or past it
ReusedAfterWallClockJump ==
    /\ MissedKeyCache
    /\ call.nfetch = 0
    /\ call.wall >= call.cache.expiry

(***************************************************************************)
(* The key and the family of the header algorithm                          *)
(***************************************************************************)
\* the request came to the if / elif over the families: its token parsed,
\* a key was selected and the header algorithm is in the allow-list
CameToFamilies ==
    /\ Done
    /\ VerifiesTokens
    /\ req.key.kind # "none"
    /\ With(_extract_token(req.authorization), LAMBDA token :
          /\ token.ok
          /\ _parse_token(token.val).ok
          /\ IsMapping(_parse_token(token.val).val.header))
    /\ RequestAlgorithm \in AllowedAlgorithms(settings)

\* C29: the HMAC verifier runs only for a header algorithm of the HMAC
\* family with the shared-secret string as key, the RSA verifier only for
\* one of the RSA family with a JWK mapping as key; a request with an
\* allowed algorithm whose key is of the other family (HS* in jwks mode,
\* RS* in shared_secret mode) fails with 401 missing_signing_key before any
\* verifier runs, so that a JWK is never used as an HMAC secret.
KeyOfTheAlgorithmFamily ==
    (Done /\ VerifiesTokens) =>
        /\ req.ran = "hmac" =>
              /\ RequestAlgorithm \in DOMAIN _HMAC_ALGORITHMS
              /\ settings.auth_provider = "shared_secret"
              /\ req.key = StrKey(settings.auth_shared_secret)
        /\ req.ran = "rsa" =>
              /\ RequestAlgorithm \in DOMAIN _RSA_ALGORITHMS
              /\ settings.auth_provider = "jwks"
              /\ req.key.kind = "jwk"
        /\ settings.auth_provider = "jwks" => req.key.kind \in {"none", "jwk"}
        /\ (/\ CameToFamilies
            /\ \/ RequestAlgorithm \in DOMAIN _HMAC_ALGORITHMS /\ req.key.kind = "jwk"
               \/ RequestAlgorithm \in DOMAIN _RSA_ALGORITHMS /\ req.key.kind = "str")
              => /\ req.out = Unauthorized("missing_signing_key")
                 /\ req.ran = "none"

\* in jwks mode an HS256 token naming the kid of a key of the static
\* document has been refused for want of a signing key
HmacTokenRefusedUnderJwk ==
    /\ CameToFamilies
    /\ settings.auth_provider = "jwks"
    /\ "HS256" \in AllowedAlgorithms(settings)
    /\ RequestAlgorithm = "HS256"
    /\ req.key.kind = "jwk"
    /\ req.out = Unauthorized("missing_signing_key")

(***************************************************************************)
(* The order of the checks: requests with several defects at once          *)
(***************************************************************************)
\* a shared secret, a Settings object whose secret was removed after its
\* validation, a static JWKS document and a JWKS URL, each with an audience
\* and an issuer
OrderSettings ==
    LET hs == [DefaultSettings EXCEPT !.auth_algorithms = <<"HS256", "RS256">>,
                                      !.auth_audience = "a1",
                                      !.auth_issuer = "i1"]
        static == [hs EXCEPT !.auth_provider = "jwks", !.auth_shared_secret = NONE,
                             !.auth_jwks_static = JwksDoc(<<K1>>)]
    IN  { hs,
          [hs EXCEPT !.auth_shared_secret = NONE],
          static,
          [static EXCEPT !.auth_jwks_static = JNull, !.auth_jwks_url = URL,
                         !.auth_jwks_cache_seconds = 1] }

\* headers: with and without alg and kid, an algorithm outside the
\* allow-list, a known and an unknown kid, and one that is not JSON
OrderHeaders ==
    { Seg(JObj(HS256Header)),
      Seg(JObj([alg |-> JStr("HS256"), kid |-> JStr("k1")])),
      RS256Seg("k1"),
      RS256Seg("k3"),
      Seg(JObj([kid |-> JStr("k1")])),
      Seg(JObj([alg |-> JStr("ES256"), kid |-> JStr("k1")])),
      BadSeg("bad_json") }

\* the tokens are signed with the configured secret or key, or with another
\* one; those with the first and the last payload also come with two
\* segments only and with a signature that is not base64
OrderIssuers == {HmacIssuer("s1"), HmacIssuer("s2"), RsaIssuer(N1, D1)}

OrderInputs ==
    With(<<{ _issue_token(h, p, i) :
               h \in OrderHeaders, p \in OrderPayloads, i \in OrderIssuers },
           { _issue_token(h, p, HmacIssuer("s1")) :
               h \in OrderHeaders,
               p \in { q \in OrderPayloads :
                         \/ q.json.fields = [exp |-> JInt(FarFuture), aud |-> JStr("a1"),
                                             iss |-> JStr("i1"), sub |-> JStr("user-1")]
                         \/ q.json.fields = [exp |-> JInt(1), aud |-> JStr("a2"),
                                             iss |-> JStr("i2")] } }>>, LAMBDA signed :
      { Bearer(t) : t \in signed[1] }
        \cup { Bearer(Token(t.head, <<65>>)) : t \in signed[2] }
        \cup { Bearer(Token(<<t.head[1]>>, t.tail)) : t \in signed[2] }
        \cup { NoHeader, HeaderValue(<<Word("Basic"), SP, Word("opaque")>>) })

InitOrder ==
    /\ settings \in OrderSettings
    /\ wall = 0
    /\ mono = 0
    /\ jwks_cache = NoEntry
    /\ jwk_key_cache = <<>>
    /\ remote = Served(JwksDoc(<<K1, K2>>))
    /\ req = Idle
    /\ hist = Never
    /\ call = NoCall

\* _get_user: one whole verification
OrderCall(authorization) ==
    /\ call = NoCall
    /\ \E a \in { __call__(settings, authorization, jwks_cache, jwk_key_cache,
                           wall, mono, remote) } :
           /\ jwks_cache' = a.jwks_cache
           /\ jwk_key_cache' = a.jwk_key_cache
           /\ call' = [op |-> "_get_user", authorization |-> authorization,
                       cache |-> jwks_cache, keys |-> jwk_key_cache,
                       wall |-> wall, mono |-> mono, remote |-> remote,
                       ran |-> a.ran, out |-> a.out]
    /\ UNCHANGED <<settings, wall, mono, remote, req, hist>>

\* the response has been sent
OrderReturn ==
    /\ call # NoCall
    /\ call' = NoCall
    /\ UNCHANGED <<settings, wall, mono, jwks_cache, jwk_key_cache, remote, req, hist>>

OrderTick == call = NoCall /\ Tick

OrderRotate == call = NoCall /\ Rotate

NextOrder ==
    \/ \E authorization \in OrderInputs : OrderCall(authorization)
    \/ OrderReturn
    \/ OrderTick
    \/ OrderRotate

SpecOrder == InitOrder /\ [][NextOrder]_vars

\* a check that passes, and one that fails with an error
Passes == [fails |-> FALSE, err |-> NONE]
FailsWith(err) == [fails |-> TRUE, err |-> err]

\* Each check looked at on its own, for the result of the extraction
\* (token), the key the provider selects (key) and the parsed segments
\* (parsed); a check that has nothing to look at (no token, no key, no
\* header, no payload) passes.
ExtractionCheck(token) == IF token.ok THEN Passes ELSE FailsWith(token.err)

ResolutionCheck(token, key) ==
    IF token.ok /\ ~key.ok THEN FailsWith(key.err) ELSE Passes

SigningKeyCheck(token, key) ==
    IF token.ok /\ key.ok /\ key.val.kind = "none"
    THEN FailsWith(Unauthorized("missing_signing_key")) ELSE Passes

SegmentsCheck(token, parsed) ==
    IF token.ok /\ ~parsed.ok THEN FailsWith(parsed.err) ELSE Passes

HasHeader(token, parsed) == token.ok /\ parsed.ok /\ IsMapping(parsed.val.header)

AlgPresentCheck(token, parsed) ==
    IF HasHeader(token, parsed) /\ ~Truthy(Get(parsed.val.header, "alg"))
    THEN FailsWith(Unauthorized("invalid_token")) ELSE Passes

AllowListCheck(token, parsed) ==
    IF HasHeader(token, parsed) /\ Truthy(Get(parsed.val.header, "alg"))
       /\ ~(Get(parsed.val.header, "alg").t = "str"
              /\ Get(parsed.val.header, "alg").s \in AllowedAlgorithms(settings))
    THEN FailsWith(Unauthorized("disallowed_algorithm")) ELSE Passes

HasAlgorithm(token, key, parsed) ==
    /\ HasHeader(token, parsed)
    /\ Get(parsed.val.header, "alg").t = "str"
    /\ key.ok
    /\ key.val.kind # "none"

KeyFamilyCheck(token, key, parsed) ==
    IF ~HasAlgorithm(token, key, parsed) THEN Passes
    ELSE IF Get(parsed.val.header, "alg").s \in DOMAIN _HMAC_ALGORITHMS
    THEN IF key.val.kind = "str" THEN Passes
         ELSE FailsWith(Unauthorized("missing_signing_key"))
    ELSE IF Get(parsed.val.header, "alg").s \in DOMAIN _RSA_ALGORITHMS
    THEN IF key.val.kind = "jwk" THEN Passes
         ELSE FailsWith(Unauthorized("missing_signing_key"))
    ELSE FailsWith(Unauthorized("disallowed_algorithm"))

SignatureCheck(token, key, parsed) ==
    IF ~HasAlgorithm(token, key, parsed) THEN Passes
    ELSE With(Get(parsed.val.header, "alg").s, LAMBDA algorithm :
      IF algorithm \in DOMAIN _HMAC_ALGORITHMS /\ key.val.kind = "str"
      THEN IF Digest(_HMAC_ALGORITHMS[algorithm], key.val.s, parsed.val.signing_input)
                = parsed.val.signature
           THEN Passes ELSE FailsWith(Unauthorized("invalid_token"))
      ELSE IF algorithm \in DOMAIN _RSA_ALGORITHMS /\ key.val.kind = "jwk"
      THEN With(_verify_rsa(parsed.val.signing_input, parsed.val.signature,
                            key.val.jwk, algorithm), LAMBDA verified :
             IF verified.ok THEN Passes ELSE FailsWith(verified.err))
      ELSE Passes)

\* one claim validated while the other two are not asked for
ClaimCheck(token, parsed, cfg, drop) ==
    IF ~(token.ok /\ parsed.ok /\ IsMapping(parsed.val.payload)) THEN Passes
    ELSE With(_validate_claims(cfg, IF drop THEN Without(parsed.val.payload, "exp")
                                    ELSE parsed.val.payload, call.wall), LAMBDA claims :
           IF claims.ok THEN Passes ELSE FailsWith(claims.err))

ExpCheck(token, parsed) ==
    ClaimCheck(token, parsed,
               [settings EXCEPT !.auth_audience = NONE, !.auth_issuer = NONE], FALSE)

AudCheck(token, parsed) ==
    ClaimCheck(token, parsed,
               [settings EXCEPT !.auth_require_exp = FALSE, !.auth_issuer = NONE], TRUE)

IssCheck(token, parsed) ==
    ClaimCheck(token, parsed,
               [settings EXCEPT !.auth_require_exp = FALSE, !.auth_audience = NONE], TRUE)

UserIdCheck(token, parsed) ==
    IF token.ok /\ parsed.ok /\ IsMapping(parsed.val.payload)
       /\ IsNone(_extract_claim(parsed.val.payload, settings.auth_user_id_claim))
    THEN FailsWith(Unauthorized("missing_user_id")) ELSE Passes

\* the checks in the order in which a request meets them
ChecksOf(token, key, parsed) ==
    <<ExtractionCheck(token), ResolutionCheck(token, key), SigningKeyCheck(token, key),
      SegmentsCheck(token, parsed), AlgPresentCheck(token, parsed),
      AllowListCheck(token, parsed), KeyFamilyCheck(token, key, parsed),
      SignatureCheck(token, key, parsed), ExpCheck(token, parsed),
      AudCheck(token, parsed), IssCheck(token, parsed), UserIdCheck(token, parsed)>>

\* the checks of the last call: its token, the key the provider selects
\* for it and its segments
ChecksInOrder ==
    With(_extract_token(call.authorization), LAMBDA token :
      With(<<IF ~token.ok THEN Ok(NoKey)
             ELSE IF settings.auth_provider = "jwks"
             THEN _resolve_jwk_key(settings, token.val, call.cache, call.keys,
                                   call.mono, call.remote).res
             ELSE Ok(SecretKey(settings.auth_shared_secret)),
             IF token.ok THEN _parse_token(token.val) ELSE Ok(JNull)>>, LAMBDA found :
        ChecksOf(token, found[1], found[2])))

Earliest(checks) ==
    IF \A k \in DOMAIN checks : ~checks[k].fails THEN 0
    ELSE CHOOSE k \in DOMAIN checks :
           checks[k].fails /\ \A j \in 1..(k - 1) : ~checks[j].fails

\* C30: a request that fails fails with the error of the earliest failing
\* check in the order extraction, key resolution (jwks mode), missing
\* signing key, segment parsing, missing alg, allow-list, key family,
\* signature, exp, aud, iss, user id, and a request without a defect is
\* answered with a User; a missing shared secret is reported as
\* missing_signing_key whatever the token is, and an expired token with a
\* wrong signature never as token_expired.
EarliestFailingCheckReported ==
    call.op = "_get_user" =>
        With(ChecksInOrder, LAMBDA checks :
          /\ IF Earliest(checks) = 0 THEN call.out.kind = "user"
             ELSE call.out = checks[Earliest(checks)].err
          /\ (/\ settings.auth_provider = "shared_secret"
              /\ settings.auth_shared_secret = NONE
              /\ ~checks[1].fails)
                => call.out = Unauthorized("missing_signing_key") /\ call.ran = "none"
          /\ (checks[8].fails /\ checks[9].fails)
                => call.out # Unauthorized("token_expired"))

\* a token that is expired, names another audience and issuer, has no user
\* id and is signed with another secret has been answered with
\* invalid_token after its signature was looked at
ManyDefectsSignatureReported ==
    /\ call.op = "_get_user"
    /\ call.ran = "hmac"
    /\ call.out = Unauthorized("invalid_token")
    /\ With(ChecksInOrder, LAMBDA checks :
          /\ \A k \in 1..7 : ~checks[k].fails
          /\ \A k \in 8..12 : checks[k].fails
          /\ checks[9].err = Unauthorized("token_expired"))
====
